---- MODULE Spec2Model ----
(***************************************************************************)
(* The equational abstract interpreter over the interval domain:          *)
(* Interval, IntervalStore, the Location hierarchy and                    *)
(* EquationalInterpreter<T> (build_equational_system, solve_system,       *)
(* is_stable, evaluate_postconditions, run).                              *)
(*                                                                         *)
(* T is modelled as a signed two's complement integer of Width bits; the   *)
(* arithmetic of T wraps at that width.                                    *)
(***************************************************************************)
EXTENDS Integers, Sequences, FiniteSets, TLC

\* ------------------------------------------------------------------------
\* Bounds of the model
\* ------------------------------------------------------------------------
Width == 8

RECURSIVE Pow2(_)
Pow2(n) == IF n = 0 THEN 1 ELSE 2 * Pow2(n - 1)

min_T == 0 - Pow2(Width - 1)
max_T == Pow2(Width - 1) - 1
null_T == 0

\* Value of an arithmetic result stored in a T.
WrapT(x) == ((x - min_T) % Pow2(Width)) + min_T

AbsI(x) == IF x < 0 THEN 0 - x ELSE x
\* operator/ of T: quotient truncated toward zero (b # 0).
\* A zero divisor is undefined: where the division does not trap the model
\* takes the quotient to be 0.
DivT(a, b) ==
    IF b = 0 THEN 0
    ELSE IF (a >= 0) = (b > 0) THEN AbsI(a) \div AbsI(b) ELSE 0 - (AbsI(a) \div AbsI(b))
\* integer division that traps: zero divisor, or min_T / -1.
DivTraps(a, b) == b = 0 \/ (a = min_T /\ b = 0 - 1)

Min2(a, b) == IF a <= b THEN a ELSE b
Max2(a, b) == IF a >= b THEN a ELSE b
Min4(a, b, c, d) == Min2(Min2(a, b), Min2(c, d))
Max4(a, b, c, d) == Max2(Max2(a, b), Max2(c, d))

\* it_count is only printed by run(): the model counts it up to MaxCount
MaxCount == 3
\* longest wiring queue with which the model starts another pass
MaxQueue == 6

VarNames == {"x", "y"}

\* ------------------------------------------------------------------------
\* Interval<T>
\* ------------------------------------------------------------------------
\* Interval(lb, ub): m_is_empty keeps its default member initialiser.
Interval(lb, ub) == [m_is_empty |-> FALSE, m_lb |-> lb, m_ub |-> ub]
\* Interval(): the default constructor, used by std::map::operator[].
DefaultInterval == [m_is_empty |-> FALSE, m_lb |-> 0, m_ub |-> 0]
\* Interval(const Interval&): copies the bounds only.
IntervalCopy(other) == [m_is_empty |-> FALSE, m_lb |-> other.m_lb, m_ub |-> other.m_ub]

join(this, other) ==
    IF this.m_is_empty /\ other.m_is_empty THEN this
    ELSE IF this.m_is_empty
         THEN [m_is_empty |-> FALSE, m_lb |-> other.m_lb, m_ub |-> other.m_ub]
    ELSE IF other.m_is_empty THEN this
    ELSE LET lb == Min2(this.m_lb, other.m_lb)
             ub == Max2(this.m_ub, other.m_ub)
         IN [m_is_empty |-> lb > ub, m_lb |-> lb, m_ub |-> ub]

meet(this, other) ==
    IF this.m_is_empty \/ other.m_is_empty
    THEN [this EXCEPT !.m_is_empty = TRUE]
    ELSE LET lb == Max2(this.m_lb, other.m_lb)
             ub == Min2(this.m_ub, other.m_ub)
         IN [m_is_empty |-> lb > ub, m_lb |-> lb, m_ub |-> ub]

\* Interval::operator==
IntervalEq(a, b) ==
    IF a.m_is_empty /\ b.m_is_empty THEN TRUE
    ELSE IF a.m_is_empty \/ b.m_is_empty THEN FALSE
    ELSE a.m_lb = b.m_lb /\ a.m_ub = b.m_ub

\* Interval::contains(const T&)
containsValue(this, value) == this.m_lb <= value /\ this.m_ub >= value

IntervalAdd(a, b) == Interval(WrapT(a.m_lb + b.m_lb), WrapT(a.m_ub + b.m_ub))
IntervalSub(a, b) == Interval(WrapT(a.m_lb - b.m_ub), WrapT(a.m_ub - b.m_lb))

\* operator*: the overflow test divides max_T by the bounds of the right operand.
MulTraps(a, b) ==
    \/ b.m_ub = 0
    \/ (~(a.m_lb > DivT(max_T, b.m_ub)) /\ b.m_lb = 0)
IntervalMul(a, b) ==
    LET p1 == WrapT(a.m_lb * b.m_lb)
        p2 == WrapT(a.m_lb * b.m_ub)
        p3 == WrapT(a.m_ub * b.m_lb)
        p4 == WrapT(a.m_ub * b.m_ub)
    IN Interval(Min4(p1, p2, p3, p4), Max4(p1, p2, p3, p4))

QuotTraps(a, b) ==
    /\ ~(b.m_lb <= 0 /\ b.m_ub >= 0)
    /\ \/ DivTraps(a.m_lb, b.m_lb) \/ DivTraps(a.m_lb, b.m_ub)
       \/ DivTraps(a.m_ub, b.m_lb) \/ DivTraps(a.m_ub, b.m_ub)
IntervalDiv(a, b) ==
    IF b.m_lb <= 0 /\ b.m_ub >= 0
    THEN Interval(min_T, max_T)
    ELSE LET q1 == WrapT(DivT(a.m_lb, b.m_lb))
             q2 == WrapT(DivT(a.m_lb, b.m_ub))
             q3 == WrapT(DivT(a.m_ub, b.m_lb))
             q4 == WrapT(DivT(a.m_ub, b.m_ub))
         IN Interval(Min4(q1, q2, q3, q4), Max4(q1, q2, q3, q4))

\* ------------------------------------------------------------------------
\* IntervalStore<T> and std::shared_ptr<IntervalStore<T>>
\* A store value is a map (keys, iv); null marks the null pointer.
\* ------------------------------------------------------------------------
NoIntervals == [v \in VarNames |-> DefaultInterval]
nullptr == [null |-> TRUE, keys |-> {}, iv |-> NoIntervals]
\* IntervalStore(): an empty map.
IntervalStore == [null |-> FALSE, keys |-> {}, iv |-> NoIntervals]

\* IntervalStore::set
set(store, var, interval) ==
    [store EXCEPT !.keys = @ \cup {var}, !.iv[var] = interval]
\* IntervalStore::get returns m_store[var]: a missing key is inserted.
get(store, var) == IF var \in store.keys THEN store.iv[var] ELSE DefaultInterval
touch(store, var) == IF var \in store.keys THEN store ELSE set(store, var, DefaultInterval)

\* IntervalStore::joinAll: each interval of other is copied before the join.
joinAll(this, other) ==
    [null |-> FALSE,
     keys |-> this.keys \cup other.keys,
     iv |-> [v \in VarNames |->
               IF v \in other.keys
               THEN IF v \in this.keys
                    THEN join(this.iv[v], IntervalCopy(other.iv[v]))
                    ELSE IntervalCopy(other.iv[v])
               ELSE this.iv[v]]]

\* IntervalStore::equals: std::map equality with Interval::operator==.
equals(this, other) ==
    /\ this.keys = other.keys
    /\ \A v \in this.keys : IntervalEq(this.iv[v], other.iv[v])

\* ------------------------------------------------------------------------
\* ASTNode (type, value, children) as consumed by the interpreter
\* ------------------------------------------------------------------------
Node(type, value, children) == [type |-> type, value |-> value, children |-> children]
NoNode == Node("NONE", "", <<>>)

\* Status of a computation: "ok", "exit" (exit(1)), "fault" (null pointer
\* dereference, front() of an empty queue, first element of an empty vector,
\* trapping integer division) or "abort" (a failed assert, an exception
\* that nothing catches: std::bad_variant_access, std::out_of_range).
Worst(a, b) == IF a # "ok" THEN a ELSE b

\* evaluate_expression, case ARITHM_OP: the operator applied to the values
\* of the two operands
arithm_op(op, left, right) ==
    IF Worst(left.status, right.status) # "ok"
    THEN [status |-> Worst(left.status, right.status), interval |-> DefaultInterval,
          store |-> right.store]
    ELSE CASE op = "ADD" ->
                [status |-> "ok", interval |-> IntervalAdd(left.interval, right.interval),
                 store |-> right.store]
           [] op = "SUB" ->
                [status |-> "ok", interval |-> IntervalSub(left.interval, right.interval),
                 store |-> right.store]
           [] op = "MUL" ->
                IF MulTraps(left.interval, right.interval)
                THEN [status |-> "fault", interval |-> DefaultInterval, store |-> right.store]
                ELSE [status |-> "ok",
                      interval |-> IntervalMul(left.interval, right.interval),
                      store |-> right.store]
           [] op = "DIV" ->
                IF QuotTraps(left.interval, right.interval)
                THEN [status |-> "fault", interval |-> DefaultInterval, store |-> right.store]
                ELSE [status |-> "ok",
                      interval |-> IntervalDiv(left.interval, right.interval),
                      store |-> right.store]
           [] OTHER ->
                [status |-> "exit", interval |-> DefaultInterval, store |-> right.store]

\* EquationalInterpreter::evaluate_expression; store is passed by reference,
\* so the keys inserted by get() stay in it.
RECURSIVE evaluate_expression(_, _)
RECURSIVE evaluate_right(_, _)
\* evaluate_expression, case ARITHM_OP: the right operand, after the left one
evaluate_right(block, left) ==
    arithm_op(block.value, left, evaluate_expression(block.children[2], left.store))
evaluate_expression(block, store) ==
    IF block.type = "INTEGER"
    THEN [status |-> "ok", interval |-> Interval(block.value, block.value), store |-> store]
    ELSE IF block.type = "VARIABLE"
    THEN [status |-> "ok",
          interval |-> IntervalCopy(get(store, block.value)),
          store |-> touch(store, block.value)]
    ELSE IF block.type = "ARITHM_OP"
    THEN evaluate_right(block, evaluate_expression(block.children[1], store))
    ELSE [status |-> "exit", interval |-> DefaultInterval, store |-> store]

\* EquationalInterpreter::extract_complementary_op
extract_complementary_op(op) ==
    CASE op = "LEQ" -> "GE"
      [] op = "GEQ" -> "LE"
      [] op = "EQ" -> "NEQ"
      [] op = "NEQ" -> "EQ"
      [] op = "LE" -> "GEQ"
      [] op = "GE" -> "LEQ"

\* apply_command_to_store: the switch over the operator, with lb and ub the
\* bounds of store.get(var)
restrict(store, var, lb, ub, interval, op) ==
    CASE op = "LEQ" ->
            set(store, var, meet(Interval(lb, ub), Interval(min_T, interval.m_ub)))
      [] op = "LE" ->
            set(store, var, meet(Interval(lb, ub), Interval(min_T, WrapT(interval.m_ub - 1))))
      [] op = "GEQ" ->
            set(store, var, meet(Interval(lb, ub), Interval(interval.m_lb, max_T)))
      [] op = "GE" ->
            set(store, var, meet(Interval(lb, ub), Interval(WrapT(interval.m_lb + 1), max_T)))
      [] op = "EQ" ->
            set(store, var, meet(Interval(lb, ub), interval))
      [] op = "NEQ" ->
            IF interval.m_lb <= lb
            THEN IF lb < ub
                 THEN set(store, var, Interval(lb + 1, ub))
                 ELSE [store EXCEPT !.iv[var].m_is_empty = TRUE]
            ELSE IF interval.m_ub >= ub
            THEN IF ub > lb
                 THEN set(store, var, Interval(lb, ub - 1))
                 ELSE [store EXCEPT !.iv[var].m_is_empty = TRUE]
            ELSE store

\* EquationalInterpreter::apply_command_to_store (store is passed by value)
apply_command_to_store(store, var, interval, op) ==
    restrict(touch(store, var), var, get(store, var).m_lb, get(store, var).m_ub,
             interval, op)

\* EquationalInterpreter::evaluate_logic_operation
evaluate_logic_operation(left, right, op) ==
    CASE op = "LEQ" -> left.m_ub <= right.m_ub /\ left.m_lb <= right.m_lb
      [] op = "GEQ" -> left.m_lb >= right.m_lb /\ left.m_ub >= right.m_ub
      [] op = "EQ" -> left.m_lb = right.m_lb /\ left.m_ub = right.m_ub
      [] op = "NEQ" -> ~(left.m_lb = right.m_lb /\ left.m_ub = right.m_ub)
      [] op = "LE" -> left.m_lb < right.m_lb /\ left.m_ub < right.m_ub
      [] op = "GE" -> left.m_ub > right.m_ub /\ left.m_lb > right.m_lb
      [] OTHER -> FALSE

\* ------------------------------------------------------------------------
\* Location<T> and its subclasses (one record per instance)
\* ------------------------------------------------------------------------
AssignmentLocation(block) ==
    [type |-> "ASSIGNMENT", ends_if_body |-> FALSE, ends_else_body |-> FALSE,
     ends_while_body |-> FALSE, m_code_block |-> block,
     m_store_before |-> IntervalStore, m_store_after |-> IntervalStore]
PostConditionLocation(block) ==
    [type |-> "POSTCONDITION", ends_if_body |-> FALSE, ends_else_body |-> FALSE,
     ends_while_body |-> FALSE, m_code_block |-> block,
     m_store |-> IntervalStore]
IfElseLocation(block) ==
    [type |-> "IFELSE", ends_if_body |-> FALSE, ends_else_body |-> FALSE,
     ends_while_body |-> FALSE, m_code_block |-> block,
     m_store_before_condition |-> IntervalStore,
     m_store_if_body |-> IntervalStore, m_store_else_body |-> IntervalStore]
EndIfLocation(after_body, after_else) ==
    [type |-> "ENDIF", ends_if_body |-> FALSE, ends_else_body |-> FALSE,
     ends_while_body |-> FALSE, m_code_block |-> NoNode,
     m_store_before |-> nullptr, m_store_after_body |-> after_body,
     m_store_after_else |-> after_else, m_store_after |-> nullptr]
WhileLocation(block) ==
    [type |-> "WHILE", ends_if_body |-> FALSE, ends_else_body |-> FALSE,
     ends_while_body |-> FALSE, m_code_block |-> block,
     m_store_before_condition |-> IntervalStore,
     m_store_body |-> IntervalStore, m_store_exit |-> IntervalStore]
EndWhileLocation ==
    [type |-> "ENDWHILE", ends_if_body |-> FALSE, ends_else_body |-> FALSE,
     ends_while_body |-> FALSE, m_code_block |-> NoNode,
     m_store_from_while |-> nullptr, m_store_after |-> nullptr]

\* EquationalInterpreter::identify_type
identify_type(loc) == loc.type

\* get_last_store: overridden by Assignment, PostCondition and EndIf only;
\* the other classes inherit Location::get_last_store, which returns nullptr.
get_last_store(loc) ==
    CASE loc.type = "ASSIGNMENT" -> loc.m_store_after
      [] loc.type = "POSTCONDITION" -> loc.m_store
      [] loc.type = "ENDIF" -> loc.m_store_after
      [] OTHER -> nullptr

\* set_previous_store: not overridden by EndWhileLocation.
set_previous_store(loc, store) ==
    CASE loc.type = "ASSIGNMENT" -> [loc EXCEPT !.m_store_before = store]
      [] loc.type = "POSTCONDITION" -> [loc EXCEPT !.m_store = store]
      [] loc.type = "IFELSE" -> [loc EXCEPT !.m_store_before_condition = store]
      [] loc.type = "ENDIF" -> [loc EXCEPT !.m_store_before = store]
      [] loc.type = "WHILE" -> [loc EXCEPT !.m_store_before_condition = store]
      [] OTHER -> loc

\* set_final_if_body_store / set_final_else_body_store: EndIfLocation only.
set_final_if_body_store(loc, store) ==
    IF loc.type = "ENDIF" THEN [loc EXCEPT !.m_store_after_body = store] ELSE loc
set_final_else_body_store(loc, store) ==
    IF loc.type = "ENDIF" THEN [loc EXCEPT !.m_store_after_else = store] ELSE loc
\* set_final_while_body_store: EndWhileLocation only.
set_final_while_body_store(loc, store) ==
    IF loc.type = "ENDWHILE" THEN [loc EXCEPT !.m_store_from_while = store] ELSE loc

\* copy(): a new instance holding copies of the stores; flags, code block
\* and operation are those of a fresh Location.
copy(loc) ==
    [loc EXCEPT !.ends_if_body = FALSE, !.ends_else_body = FALSE,
                !.ends_while_body = FALSE, !.m_code_block = NoNode]

\* every Location stable whatever its stores, as PostConditionLocation is
AlwaysStable(loc, old) == "stable"
\* is_stable of one Location against its snapshot: "fault" when a null
\* store pointer is dereferenced.
LocationIsStable(loc, old) ==
    CASE loc.type = "ASSIGNMENT" ->
            IF loc.m_store_after.null \/ old.m_store_after.null THEN "fault"
            ELSE IF equals(loc.m_store_after, old.m_store_after) THEN "stable" ELSE "unstable"
      [] loc.type = "POSTCONDITION" -> "stable"
      [] loc.type = "IFELSE" ->
            IF loc.m_store_if_body.null \/ old.m_store_if_body.null THEN "fault"
            ELSE IF ~equals(loc.m_store_if_body, old.m_store_if_body) THEN "unstable"
            ELSE IF loc.m_store_else_body.null \/ old.m_store_else_body.null THEN "fault"
            ELSE IF equals(loc.m_store_else_body, old.m_store_else_body) THEN "stable" ELSE "unstable"
      [] loc.type = "ENDIF" ->
            IF loc.m_store_after_body.null \/ old.m_store_after_body.null THEN "fault"
            ELSE IF ~equals(loc.m_store_after_body, old.m_store_after_body) THEN "unstable"
            ELSE IF loc.m_store_after_else.null \/ old.m_store_after_else.null THEN "fault"
            ELSE IF equals(loc.m_store_after_else, old.m_store_after_else) THEN "stable" ELSE "unstable"
      [] loc.type = "WHILE" ->
            IF loc.m_store_body.null \/ old.m_store_body.null THEN "fault"
            ELSE IF ~equals(loc.m_store_body, old.m_store_body) THEN "unstable"
            ELSE IF loc.m_store_exit.null \/ old.m_store_exit.null THEN "fault"
            ELSE IF equals(loc.m_store_exit, old.m_store_exit) THEN "stable" ELSE "unstable"
      [] loc.type = "ENDWHILE" ->
            IF loc.m_store_after.null \/ old.m_store_after.null THEN "fault"
            ELSE IF equals(loc.m_store_after, old.m_store_after) THEN "stable" ELSE "unstable"

\* EquationalInterpreter::is_stable: stops at the first Location that is
\* not stable.
RECURSIVE is_stable_from(_, _, _)
is_stable_from(locations, old_locations, i) ==
    IF i > Len(locations) THEN "stable"
    ELSE LET r == LocationIsStable(locations[i], old_locations[i])
         IN IF r = "stable" THEN is_stable_from(locations, old_locations, i + 1) ELSE r
is_stable(locations, old_locations) == is_stable_from(locations, old_locations, 1)

\* ------------------------------------------------------------------------
\* build_equational_system
\* ------------------------------------------------------------------------
MarkLast(locs, flag) ==
    IF Len(locs) = 0 THEN locs
    ELSE [locs EXCEPT ![Len(locs)] =
            CASE flag = "if" -> [@ EXCEPT !.ends_if_body = TRUE]
              [] flag = "else" -> [@ EXCEPT !.ends_else_body = TRUE]
              [] flag = "while" -> [@ EXCEPT !.ends_while_body = TRUE]]

\* the blocks of a body: the children of the wrapper, or of its leading
\* SEQUENCE child (manage_block reads the first child of the wrapper before
\* anything else: body_locations)
BodyBlocks(wrapper) ==
    IF Len(wrapper.children) > 0 /\ wrapper.children[1].type = "SEQUENCE"
    THEN wrapper.children[1].children
    ELSE wrapper.children

RECURSIVE manage_block(_)
RECURSIVE manage_blocks(_, _)
RECURSIVE body_locations(_)
RECURSIVE manage_rest(_, _, _)
\* the loop "for each block: manage_block(block)"
manage_rest(first, blocks, i) ==
    IF first.status # "ok" THEN first
    ELSE [status |-> manage_blocks(blocks, i).status,
          locs |-> first.locs \o manage_blocks(blocks, i).locs]
manage_blocks(blocks, i) ==
    IF i > Len(blocks) THEN [status |-> "ok", locs |-> <<>>]
    ELSE manage_rest(manage_block(blocks[i]), blocks, i + 1)

\* manage_block, case IFELSE: the EndIfLocation with the stores it is built with
end_if_location(head, if_locs, all_locs, exists_else_block) ==
    EndIfLocation(get_last_store(if_locs[Len(if_locs)]),
                  IF exists_else_block /\ ~get_last_store(all_locs[Len(all_locs)]).null
                  THEN get_last_store(all_locs[Len(all_locs)])
                  ELSE head.m_store_else_body)
\* manage_block, case IFELSE: head, if-body, else-body, EndIfLocation
if_else_locations(head, if_locs, else_locs, exists_else_block) ==
    IF exists_else_block
    THEN MarkLast(if_locs \o else_locs, "else") \o
         <<end_if_location(head, if_locs, MarkLast(if_locs \o else_locs, "else"), TRUE)>>
    ELSE if_locs \o <<end_if_location(head, if_locs, if_locs, FALSE)>>
if_else_block(block, ifb, elb) ==
    [status |-> Worst(ifb.status, elb.status),
     locs |-> if_else_locations(IfElseLocation(block),
                                MarkLast(<<IfElseLocation(block)>> \o ifb.locs, "if"),
                                elb.locs, Len(block.children) = 3)]
\* manage_block, case WHILELOOP: head, body, EndWhileLocation
while_block(block, body) ==
    [status |-> body.status,
     locs |-> MarkLast(<<WhileLocation(block)>> \o body.locs, "while") \o <<EndWhileLocation>>]

\* manage_block, cases IFELSE and WHILELOOP: the Locations of a body; the
\* first child of a wrapper without children is read from an empty vector
body_locations(wrapper) ==
    IF Len(wrapper.children) = 0 THEN [status |-> "fault", locs |-> <<>>]
    ELSE manage_blocks(BodyBlocks(wrapper), 1)

\* EquationalInterpreter::manage_block: the Locations appended for one block
manage_block(block) ==
    CASE block.type = "ASSIGNMENT" ->
            [status |-> "ok", locs |-> <<AssignmentLocation(block)>>]
      [] block.type = "POST_CON" ->
            [status |-> "ok", locs |-> <<PostConditionLocation(block)>>]
      [] block.type = "IFELSE" ->
            if_else_block(block,
                          body_locations(block.children[2]),
                          IF Len(block.children) = 3
                          THEN body_locations(block.children[3])
                          ELSE [status |-> "ok", locs |-> <<>>])
      [] block.type = "WHILELOOP" ->
            while_block(block, body_locations(block.children[2]))
      [] OTHER -> [status |-> "exit", locs |-> <<>>]

\* a declaration that records nothing in the store
add_no_variable(store, node) == store
\* EquationalInterpreter::add_variable
add_variable(store, node) == set(store, node.value, Interval(min_T, max_T))

\* add_precondition: the bound val set on variable var of store
set_bound(store, op, variable_on_left, var, val) ==
    CASE op = "<=" ->
            [status |-> "ok",
             store |-> IF variable_on_left
                       THEN [store EXCEPT !.iv[var].m_ub = val]
                       ELSE [store EXCEPT !.iv[var].m_lb = val]]
      [] op = ">=" ->
            [status |-> "ok",
             store |-> IF variable_on_left
                       THEN [store EXCEPT !.iv[var].m_lb = val]
                       ELSE [store EXCEPT !.iv[var].m_ub = val]]
      [] op \in {"==", "!=", "<", ">"} -> [status |-> "exit", store |-> store]
      [] OTHER -> [status |-> "abort", store |-> store]

\* EquationalInterpreter::add_precondition: node.value is the operator text
add_precondition(store, node) ==
    IF node.children[1].type = "VARIABLE" /\ node.children[2].type = "INTEGER"
    THEN set_bound(touch(store, node.children[1].value), node.value, TRUE,
                   node.children[1].value, node.children[2].value)
    ELSE IF node.children[1].type = "INTEGER" /\ node.children[2].type = "VARIABLE"
    THEN set_bound(touch(store, node.children[2].value), node.value, FALSE,
                   node.children[2].value, node.children[1].value)
    ELSE [status |-> "exit", store |-> store]

RECURSIVE add_variables(_, _, _)
add_variables(store, nodes, i) ==
    IF i > Len(nodes) THEN store
    ELSE add_variables(add_variable(store, nodes[i]), nodes, i + 1)

RECURSIVE declare_blocks(_, _, _)
\* the leading DECLARATION blocks of the root
declare_blocks(store, blocks, i) ==
    IF i > Len(blocks) \/ blocks[i].type # "DECLARATION" THEN [store |-> store, next |-> i]
    ELSE declare_blocks(add_variables(store, blocks[i].children, 1), blocks, i + 1)

RECURSIVE add_preconditions(_, _, _)
add_preconditions(acc, nodes, i) ==
    IF i > Len(nodes) \/ acc.status # "ok" THEN acc
    ELSE add_preconditions(add_precondition(acc.store, nodes[i]), nodes, i + 1)

RECURSIVE precondition_blocks(_, _, _)
\* the leading PRE_CON blocks of the sequence
precondition_blocks(acc, blocks, i) ==
    IF i > Len(blocks) \/ blocks[i].type # "PRE_CON" \/ acc.status # "ok"
    THEN [status |-> acc.status, store |-> acc.store, next |-> i]
    ELSE precondition_blocks(add_preconditions(acc, blocks[i].children, 1), blocks, i + 1)

\* build_equational_system: the Locations of the blocks after the
\* preconditions
build_locations(prec, built) ==
    [status |-> Worst(prec.status, built.status),
     m_precondition_store |-> prec.store,
     m_locations |-> IF prec.status = "ok" THEN built.locs ELSE <<>>]
build_code_blocks(code_blocks, prec) ==
    build_locations(prec, manage_blocks(code_blocks, prec.next))
build_declared(ast, decl) ==
    IF ast.children[decl.next].type # "SEQUENCE"
    THEN [status |-> "abort", m_precondition_store |-> decl.store, m_locations |-> <<>>]
    ELSE
    build_code_blocks(ast.children[decl.next].children,
                      precondition_blocks([status |-> "ok", store |-> decl.store],
                                          ast.children[decl.next].children, 1))

\* EquationalInterpreter::build_equational_system
build_equational_system(ast) ==
    IF Len(ast.children) = 0
    THEN [status |-> "fault", m_precondition_store |-> IntervalStore, m_locations |-> <<>>]
    ELSE IF ast.children[1].type # "DECLARATION"
    THEN [status |-> "abort", m_precondition_store |-> IntervalStore, m_locations |-> <<>>]
    ELSE build_declared(ast, declare_blocks(IntervalStore, ast.children, 1))

\* ------------------------------------------------------------------------
\* The transfer functions (m_operation) installed by manage_block.
\* q is the record of the interpreter's seven queues; the result carries
\* the Location and the queues after the call and the verdict written.
\* ------------------------------------------------------------------------
OpResult(status, loc, q, verdict) ==
    [status |-> status, loc |-> loc, q |-> q, verdict |-> verdict]
Push(queue, store) == Append(queue, store)
\* front() and pop() of a queue; front() of an empty queue is a fault
Front(queue) == IF Len(queue) = 0 THEN nullptr ELSE Head(queue)
Pop(queue) == IF Len(queue) = 0 THEN queue ELSE Tail(queue)

\* an assignment that works in the store it was given instead of a copy
assignment_in_place(ptr, q, ev) ==
    IF ev.status # "ok" THEN OpResult(ev.status, ptr, q, "none")
    ELSE OpResult("ok",
                  [ptr EXCEPT !.m_store_before =
                      set(ev.store, ptr.m_code_block.children[1].value, ev.interval),
                              !.m_store_after =
                      set(ev.store, ptr.m_code_block.children[1].value, ev.interval)],
                  q, "none")
\* AssignmentLocation m_operation: ev is the value of the right-hand side
assignment_store(ptr, q, ev) ==
    IF ev.status # "ok" THEN OpResult(ev.status, ptr, q, "none")
    ELSE OpResult("ok",
                  [ptr EXCEPT !.m_store_after =
                      set(ev.store, ptr.m_code_block.children[1].value, ev.interval)],
                  q, "none")
AssignmentOperation(ptr, q) ==
    IF ptr.m_store_before.null THEN OpResult("fault", ptr, q, "none")
    ELSE IF ptr.m_code_block.children[1].type # "VARIABLE"
    THEN OpResult("abort", ptr, q, "none")
    ELSE assignment_store(ptr, q,
             evaluate_expression(ptr.m_code_block.children[2], ptr.m_store_before))

\* PostConditionLocation m_operation: the verdict on the two evaluated sides
postcondition_verdict(ptr, q, should_evaluate, op, left, right) ==
    IF Worst(left.status, right.status) # "ok"
    THEN OpResult(Worst(left.status, right.status), ptr, q, "none")
    ELSE IF should_evaluate
    THEN OpResult("ok", ptr, q,
                  IF evaluate_logic_operation(left.interval, right.interval, op)
                  THEN "satisfied" ELSE "not satisfied")
    ELSE OpResult("ok", ptr, q, "none")
postcondition_right(ptr, q, should_evaluate, postcondition, left) ==
    postcondition_verdict(ptr, q, should_evaluate, postcondition.value, left,
                          evaluate_expression(postcondition.children[2], left.store))
\* a PostConditionLocation m_operation that reports its verdict in every pass
PostConditionEveryPass(ptr, q, should_evaluate) ==
    IF ptr.m_store.null THEN OpResult("fault", ptr, q, "none")
    ELSE postcondition_right(ptr, q, TRUE, ptr.m_code_block.children[1],
             evaluate_expression(ptr.m_code_block.children[1].children[1], ptr.m_store))
PostConditionOperation(ptr, q, should_evaluate) ==
    IF ptr.m_store.null THEN OpResult("fault", ptr, q, "none")
    ELSE postcondition_right(ptr, q, should_evaluate, ptr.m_code_block.children[1],
             evaluate_expression(ptr.m_code_block.children[1].children[1], ptr.m_store))

\* IfElseLocation m_operation: the two stores are kept and pushed
if_else_push(ptr, q, exists_else, if_body_store, else_body_store) ==
    OpResult("ok",
             [ptr EXCEPT !.m_store_if_body = if_body_store,
                         !.m_store_else_body = else_body_store],
             [q EXCEPT
                !.m_if_body_stores_queue = Push(@, if_body_store),
                !.m_else_body_stores_queue = Push(@, else_body_store),
                !.m_final_else_body_stores_queue =
                    IF exists_else THEN @ ELSE Push(@, else_body_store)],
             "none")
\* IfElseLocation m_operation: ev is the value of the right-hand side of
\* the condition
if_else_restrict(ptr, q, condition, ev) ==
    IF ev.status # "ok" THEN OpResult(ev.status, ptr, q, "none")
    ELSE if_else_push(ptr, q, Len(ptr.m_code_block.children) = 3,
             apply_command_to_store(ev.store, condition.children[1].value, ev.interval,
                                    condition.value),
             apply_command_to_store(ev.store, condition.children[1].value, ev.interval,
                                    extract_complementary_op(condition.value)))
IfElseOperation(ptr, q) ==
    IF ptr.m_store_before_condition.null THEN OpResult("fault", ptr, q, "none")
    ELSE IF ptr.m_code_block.children[1].children[1].children[1].type # "VARIABLE"
    THEN OpResult("abort", ptr, q, "none")
    ELSE if_else_restrict(ptr, q, ptr.m_code_block.children[1].children[1],
             evaluate_expression(ptr.m_code_block.children[1].children[1].children[2],
                                 ptr.m_store_before_condition))

EndIfOperation(ptr, q) ==
    IF ptr.m_store_after_body.null \/ ptr.m_store_after_else.null
    THEN OpResult("fault", ptr, q, "none")
    ELSE OpResult("ok",
                  [ptr EXCEPT !.m_store_after =
                      joinAll(ptr.m_store_after_body, ptr.m_store_after_else)],
                  q, "none")

\* WhileLocation m_operation: the two stores are kept and pushed
while_push(ptr, q, while_body_store, while_exit_store) ==
    OpResult("ok",
             [ptr EXCEPT !.m_store_body = while_body_store,
                         !.m_store_exit = while_exit_store],
             [q EXCEPT
                !.m_final_while_body_stores_queue = Pop(@),
                !.m_while_body_stores_queue = Push(@, while_body_store),
                !.m_while_exit_stores_queue = Push(@, while_exit_store)],
             "none")
\* WhileLocation m_operation: while_body_store is the store before the
\* condition, joined with the store fed back when there is one
while_restrict(ptr, q, condition, rhs_interval, while_body_store) ==
    while_push(ptr, q,
               apply_command_to_store(while_body_store, condition.children[1].value,
                                      rhs_interval, condition.value),
               apply_command_to_store(while_body_store, condition.children[1].value,
                                      rhs_interval,
                                      extract_complementary_op(condition.value)))
\* WhileLocation m_operation: ev is the value of the right-hand side of the
\* condition
while_join(ptr, q, condition, ev) ==
    IF ev.status # "ok" THEN OpResult(ev.status, ptr, q, "none")
    ELSE IF Len(q.m_final_while_body_stores_queue) = 0
    THEN while_restrict(ptr, q, condition, ev.interval, ev.store)
    ELSE IF Head(q.m_final_while_body_stores_queue).null
    THEN OpResult("fault", ptr, q, "none")
    ELSE while_restrict(ptr, q, condition, ev.interval,
                        joinAll(ev.store, Head(q.m_final_while_body_stores_queue)))
WhileOperation(ptr, q) ==
    IF ptr.m_store_before_condition.null THEN OpResult("fault", ptr, q, "none")
    ELSE IF ptr.m_code_block.children[1].children[1].children[1].type # "VARIABLE"
    THEN OpResult("abort", ptr, q, "none")
    ELSE while_join(ptr, q, ptr.m_code_block.children[1].children[1],
             evaluate_expression(ptr.m_code_block.children[1].children[1].children[2],
                                 ptr.m_store_before_condition))

EndWhileOperation(ptr, q) ==
    IF ptr.m_store_from_while.null THEN OpResult("fault", ptr, q, "none")
    ELSE OpResult("ok", [ptr EXCEPT !.m_store_after = ptr.m_store_from_while], q, "none")

m_operation(loc, q, should_evaluate) ==
    CASE loc.type = "ASSIGNMENT" -> AssignmentOperation(loc, q)
      [] loc.type = "POSTCONDITION" -> PostConditionOperation(loc, q, should_evaluate)
      [] loc.type = "IFELSE" -> IfElseOperation(loc, q)
      [] loc.type = "ENDIF" -> EndIfOperation(loc, q)
      [] loc.type = "WHILE" -> WhileOperation(loc, q)
      [] loc.type = "ENDWHILE" -> EndWhileOperation(loc, q)

\* ------------------------------------------------------------------------
\* Programs given to the interpreter
\* ------------------------------------------------------------------------
IntLit(n) == Node("INTEGER", n, <<>>)
VarRef(v) == Node("VARIABLE", v, <<>>)
Arith(op, l, r) == Node("ARITHM_OP", op, <<l, r>>)
Logic(op, l, r) == Node("LOGIC_OP", op, <<l, r>>)
Assign(v, e) == Node("ASSIGNMENT", "", <<VarRef(v), e>>)
PostCon(op, l, r) == Node("POST_CON", "", <<Logic(op, l, r)>>)
IfThen(cond, th) ==
    Node("IFELSE", "", <<Node("CONDITION", "", <<cond>>), Node("IF_BODY", "", th)>>)
IfThenElse(cond, th, el) ==
    Node("IFELSE", "", <<Node("CONDITION", "", <<cond>>), Node("IF_BODY", "", th),
                         Node("ELSE_BODY", "", el)>>)
While(cond, body) ==
    Node("WHILELOOP", "", <<Node("CONDITION", "", <<cond>>), Node("WHILE_BODY", "", body)>>)
\* precondition lo <= v <= hi: two clauses, the integer on the left, then
\* the variable on the left
PreCon(lo, v, hi) ==
    Node("PRE_CON", "", <<Node("LOGIC_OP", "<=", <<IntLit(lo), VarRef(v)>>),
                          Node("LOGIC_OP", "<=", <<VarRef(v), IntLit(hi)>>)>>)
Declare(vars) == Node("DECLARATION", "", vars)
Program(vars, body) == Node("ROOT", "", <<Declare(vars), Node("SEQUENCE", "", body)>>)

LogicOps == {"LEQ", "GEQ", "EQ", "NEQ", "LE", "GE"}

X == VarRef("x")
Y == VarRef("y")
Cond(op, v, n) == Logic(op, v, IntLit(n))
Inc(v) == Assign(v, Arith("ADD", VarRef(v), IntLit(1)))
DeclX == <<X>>
DeclXY == <<X, Y>>

Templates == 1..20
\* the program of template t, with condition operator op, condition
\* constant c and precondition lo <= x <= hi
Template(t, op, c, lo, hi) ==
    CASE t = 1 -> Program(DeclX,
            <<Assign("x", IntLit(3)), Assign("x", Arith("ADD", X, IntLit(4))),
              PostCon("EQ", X, IntLit(7))>>)
      [] t = 2 -> Program(DeclX,
            <<PreCon(lo, "x", hi),
              IfThenElse(Cond(op, X, c), <<Inc("x")>>, <<Assign("x", IntLit(0))>>),
              PostCon("GEQ", X, IntLit(0)), PostCon("LEQ", X, IntLit(10))>>)
      [] t = 3 -> Program(DeclX,
            <<PreCon(lo, "x", hi),
              IfThen(Cond(op, X, c), <<Assign("x", IntLit(100))>>),
              PostCon("LEQ", X, IntLit(100))>>)
      [] t = 4 -> Program(DeclX,
            <<PreCon(lo, "x", hi),
              Assign("x", Arith("DIV", IntLit(10), X)),
              PostCon("GEQ", X, IntLit(1))>>)
      [] t = 5 -> Program(DeclX,
            <<Assign("x", IntLit(0)),
              While(Cond("LE", X, 10), <<Inc("x")>>),
              PostCon("EQ", X, IntLit(10))>>)
      [] t = 6 -> Program(DeclX,
            <<PreCon(lo, "x", hi),
              While(Cond(op, X, c), <<Inc("x")>>)>>)
      [] t = 7 -> Program(DeclXY,
            <<PreCon(lo, "x", hi), PreCon(0, "y", 0),
              While(Cond("LE", X, c),
                    <<While(Cond("LE", Y, 2), <<Inc("y")>>)>>)>>)
      [] t = 8 -> Program(DeclXY,
            <<PreCon(lo, "x", hi), PreCon(0, "y", 0),
              While(Cond("LE", X, c), <<Inc("x")>>),
              While(Cond("LE", Y, 2), <<Inc("y")>>)>>)
      [] t = 9 -> Program(DeclXY,
            <<PreCon(lo, "x", hi),
              IfThen(Cond(op, X, c), <<Assign("y", IntLit(1))>>),
              IfThenElse(Cond("LE", X, 3), <<Assign("y", IntLit(2))>>, <<Assign("y", X)>>)>>)
      [] t = 10 -> Program(DeclXY,
            <<PreCon(lo, "x", hi),
              IfThenElse(Cond(op, X, c),
                         <<IfThenElse(Cond("LE", X, 2), <<Assign("y", IntLit(1))>>,
                                      <<Assign("y", X)>>)>>,
                         <<Assign("y", Arith("ADD", X, IntLit(1)))>>),
              PostCon("LEQ", Y, IntLit(11))>>)
      [] t = 11 -> Program(DeclXY,
            <<PreCon(lo, "x", hi),
              IfThenElse(Cond(op, X, c),
                         <<Assign("y", IntLit(1))>>,
                         <<IfThenElse(Cond("GE", X, 7), <<Assign("y", IntLit(2))>>,
                                      <<Assign("y", X)>>)>>),
              PostCon("LEQ", Y, IntLit(11))>>)
      [] t = 12 -> Program(DeclXY,
            <<PreCon(lo, "x", hi),
              IfThen(Cond(op, X, c),
                     <<IfThenElse(Cond("LE", X, 2), <<Assign("y", IntLit(1))>>,
                                  <<Assign("y", IntLit(2))>>)>>),
              PostCon("LEQ", Y, IntLit(2))>>)
      [] t = 13 -> Program(DeclXY,
            <<PreCon(lo, "x", hi), PreCon(0, "y", 0),
              IfThenElse(Cond(op, X, c),
                         <<While(Cond("LE", X, 7), <<Inc("x")>>)>>,
                         <<While(Cond("LE", Y, 2), <<Inc("y")>>)>>)>>)
      [] t = 14 -> Program(DeclX,
            <<PreCon(lo, "x", hi),
              While(Cond("LE", X, 6),
                    <<IfThenElse(Cond(op, X, c),
                                 <<Assign("x", Arith("ADD", X, IntLit(2)))>>,
                                 <<Inc("x")>>)>>)>>)
      [] t = 15 -> Program(DeclXY,
            <<IfThen(Cond("LE", X, 5), <<Assign("y", IntLit(1))>>),
              IfThen(Cond("LE", X, 5), <<Assign("y", IntLit(1))>>),
              IfThenElse(Cond("LE", X, 3), <<Assign("y", IntLit(2))>>, <<Assign("y", X)>>),
              PostCon("GEQ", Y, IntLit(2))>>)
      [] t = 16 -> Program(DeclX,
            <<PreCon(lo, "x", hi),
              While(Cond(op, X, c), <<Inc("x"), PostCon("LEQ", X, IntLit(c))>>)>>)
      [] t = 17 -> Program(DeclXY,
            <<PreCon(lo, "x", hi), PreCon(0, "y", 10),
              IfThen(Logic("LEQ", X, Y), <<Assign("x", IntLit(0))>>)>>)
      [] t = 18 -> Program(DeclX,
            <<Assign("x", IntLit(1)),
              IfThen(Logic("LEQ", IntLit(5), X), <<Assign("x", IntLit(0))>>)>>)
      [] t = 19 -> Program(DeclX,
            <<PreCon(lo, "x", hi),
              Node("PRE_CON", "", <<Node("LOGIC_OP", "<=", <<X, IntLit(c)>>)>>),
              PostCon("LEQ", X, IntLit(c))>>)
      [] t = 20 -> Program(DeclX,
            <<PreCon(lo, "x", hi),
              Assign("x", Arith("ADD", X, IntLit(1))),
              PostCon(op, X, IntLit(c)), PostCon("LEQ", X, IntLit(10))>>)

\* the templates that use the condition operator, the constant and the
\* precondition
UsesCond(t) == t \in {2, 3, 6, 9, 10, 11, 12, 13, 14, 16, 20}
UsesConst(t) == UsesCond(t) \/ t \in {7, 8, 19}
UsesPre(t) == t \notin {1, 5, 15, 18}
CondConsts == {0, 5}
PreBounds == {<<0, 10>>, <<1, 10>>, <<0 - 1, 1>>, <<5, 5>>, <<min_T, max_T>>}

\* ------------------------------------------------------------------------
\* State of the EquationalInterpreter and of run()
\* ------------------------------------------------------------------------
VARIABLES
    input,               \* the program handed to the constructor
    m_ast,
    m_precondition_store,
    m_locations,
    m_old_locations,
    last_interval_store,
    m_if_body_stores_queue,
    m_else_body_stores_queue,
    m_final_if_body_stores_queue,
    m_final_else_body_stores_queue,
    m_while_body_stores_queue,
    m_while_exit_stores_queue,
    m_final_while_body_stores_queue,
    should_evaluate_postcondition,
    pc,                  \* position in run()
    it_count,            \* run(): passes started, counted up to MaxCount
    counter,             \* solve_system / evaluate_postconditions: Locations done
    last_location,       \* solve_system: the copy of the previous Location
    last_location_type,  \* solve_system
    output,              \* the postcondition verdicts written so far
    first_pass,          \* history: the Locations and queues at the end of pass 1
    replay,              \* history: solve_system() was run again after a stable pass
    c_at,                \* concrete execution: the Location about to execute
    c_env,               \* concrete execution: the values of the variables
    d_left,              \* abstract domain: the first operand of the call
    d_right,             \* abstract domain: the second operand of the call
    d_call,              \* abstract domain: the operation called, <<"none">> before
    d_ret,               \* abstract domain: what the call returned
    m_interval_store,    \* AbstractInterpreter: the store of the analysis
    f_is_open,           \* main: the input file could be opened
    exit_status,         \* main: the exit code of the process, <<>> while it runs
    heap,                \* objects: the IntervalStore objects, by address
    written              \* objects: the objects the last m_operation wrote into

queues == <<m_if_body_stores_queue, m_else_body_stores_queue,
            m_final_if_body_stores_queue, m_final_else_body_stores_queue,
            m_while_body_stores_queue, m_while_exit_stores_queue,
            m_final_while_body_stores_queue>>
solver == <<counter, last_location, last_location_type, last_interval_store>>
concrete == <<c_at, c_env>>
history == <<first_pass, replay>>
domain == <<d_left, d_right, d_call, d_ret>>
process == <<m_interval_store, f_is_open, exit_status>>
memory == <<heap, written>>
vars == <<input, m_ast, m_precondition_store, m_locations, m_old_locations, queues, solver,
          should_evaluate_postcondition, pc, it_count, output, history, concrete, domain,
          process, memory>>

Queues ==
    [m_if_body_stores_queue |-> m_if_body_stores_queue,
     m_else_body_stores_queue |-> m_else_body_stores_queue,
     m_final_if_body_stores_queue |-> m_final_if_body_stores_queue,
     m_final_else_body_stores_queue |-> m_final_else_body_stores_queue,
     m_while_body_stores_queue |-> m_while_body_stores_queue,
     m_while_exit_stores_queue |-> m_while_exit_stores_queue,
     m_final_while_body_stores_queue |-> m_final_while_body_stores_queue]
SetQueues(q) ==
    /\ m_if_body_stores_queue' = q.m_if_body_stores_queue
    /\ m_else_body_stores_queue' = q.m_else_body_stores_queue
    /\ m_final_if_body_stores_queue' = q.m_final_if_body_stores_queue
    /\ m_final_else_body_stores_queue' = q.m_final_else_body_stores_queue
    /\ m_while_body_stores_queue' = q.m_while_body_stores_queue
    /\ m_while_exit_stores_queue' = q.m_while_exit_stores_queue
    /\ m_final_while_body_stores_queue' = q.m_final_while_body_stores_queue

\* the previous Location before the first one: last_location is nullptr
NoLocation == [ends_if_body |-> FALSE, ends_else_body |-> FALSE, ends_while_body |-> FALSE]

\* EquationalInterpreter(input): the AST is parsed, nothing is built yet
Init ==
    /\ \E t \in Templates :
       \E op \in (IF UsesCond(t) THEN LogicOps ELSE {"LE"}) :
       \E c \in (IF UsesConst(t) THEN CondConsts ELSE {0}) :
       \E b \in (IF UsesPre(t) THEN PreBounds ELSE {<<0, 0>>}) :
           /\ input = <<t, op, c, b[1], b[2]>>
           /\ m_ast = Template(t, op, c, b[1], b[2])
    /\ m_precondition_store = IntervalStore
    /\ m_locations = <<>>
    /\ m_old_locations = <<>>
    /\ last_interval_store \in {nullptr, IntervalStore}
    /\ m_if_body_stores_queue = <<>>
    /\ m_else_body_stores_queue = <<>>
    /\ m_final_if_body_stores_queue = <<>>
    /\ m_final_else_body_stores_queue = <<>>
    /\ m_while_body_stores_queue = <<>>
    /\ m_while_exit_stores_queue = <<>>
    /\ m_final_while_body_stores_queue = <<>>
    /\ should_evaluate_postcondition = FALSE
    /\ pc = "build"
    /\ it_count = 0
    /\ counter = 0
    /\ last_location = NoLocation
    /\ last_location_type = "ASSIGNMENT"
    /\ output = <<>>
    /\ first_pass = <<>>
    /\ replay = FALSE
    /\ c_at = 0
    /\ c_env = [v \in VarNames |-> 0]
    /\ d_left = DefaultInterval
    /\ d_right = DefaultInterval
    /\ d_call = <<"none">>
    /\ d_ret = <<>>
    /\ m_interval_store = IntervalStore
    /\ f_is_open = TRUE
    /\ exit_status = <<>>
    /\ heap = <<>>
    /\ written = {}

\* ------------------------------------------------------------------------
\* run()
\* ------------------------------------------------------------------------
\* run(): build_equational_system(), built being its result
BuildTo(built) ==
    /\ m_precondition_store' = built.m_precondition_store
    /\ m_locations' = built.m_locations
    /\ pc' = CASE built.status = "ok" -> "iterate"
               [] built.status = "fault" -> "fault_build"
               [] built.status = "abort" -> "aborted"
               [] OTHER -> "exited"
Build ==
    /\ pc = "build"
    /\ BuildTo(build_equational_system(m_ast))
    /\ UNCHANGED <<input, domain, process, memory, history, concrete, m_ast, m_old_locations, queues, solver,
                   should_evaluate_postcondition, it_count, output>>

QueueBoundReached ==
    \E k \in DOMAIN Queues : Len(Queues[k]) > MaxQueue

\* run(): the head of the do-while loop, copy_locations()
CopyLocations ==
    /\ pc = "iterate"
    /\ ~QueueBoundReached
    /\ m_old_locations' = [i \in 1..Len(m_locations) |-> copy(m_locations[i])]
    /\ it_count' = IF it_count < MaxCount THEN it_count + 1 ELSE it_count
    /\ pc' = "solve_system"
    /\ UNCHANGED <<input, domain, process, memory, history, concrete, m_ast, m_precondition_store, m_locations, queues, solver,
                   should_evaluate_postcondition, output>>

\* solve_system(): the initialisation before the loop over the Locations
SolveSystemBegin ==
    /\ pc = "solve_system"
    /\ last_interval_store' = m_precondition_store
    /\ last_location_type' = "ASSIGNMENT"
    /\ last_location' = NoLocation
    /\ counter' = 0
    /\ pc' = "solve"
    /\ UNCHANGED <<input, domain, process, memory, history, concrete, m_ast, m_precondition_store, m_locations, m_old_locations, queues,
                   should_evaluate_postcondition, it_count, output>>

\* solve_system(): the choice of the input store(s) of Location loc
Wire(loc, q, cnt, last, last_type, last_store) ==
    LET current_location_type == identify_type(loc)
    IN IF last_type = "IFELSE"
       THEN [status |-> IF Len(q.m_if_body_stores_queue) = 0 THEN "fault" ELSE "ok",
             loc |-> set_previous_store(loc, Front(q.m_if_body_stores_queue)),
             q |-> [q EXCEPT !.m_if_body_stores_queue = Pop(@)],
             from |-> "if_body"]
       ELSE IF current_location_type = "ENDIF"
       THEN [status |-> IF Len(q.m_final_if_body_stores_queue) = 0
                           \/ Len(q.m_final_else_body_stores_queue) = 0
                        THEN "fault" ELSE "ok",
             loc |-> set_final_else_body_store(
                         set_final_if_body_store(loc, Front(q.m_final_if_body_stores_queue)),
                         Front(q.m_final_else_body_stores_queue)),
             q |-> [q EXCEPT !.m_final_if_body_stores_queue = Pop(@),
                             !.m_final_else_body_stores_queue = Pop(@)],
             from |-> "final"]
       ELSE IF cnt # 0 /\ last.ends_if_body
       THEN [status |-> IF Len(q.m_else_body_stores_queue) = 0 THEN "fault" ELSE "ok",
             loc |-> set_previous_store(loc, Front(q.m_else_body_stores_queue)),
             q |-> [q EXCEPT !.m_else_body_stores_queue = Pop(@)],
             from |-> "else_body"]
       ELSE IF cnt # 0 /\ current_location_type = "ENDWHILE"
       THEN [status |-> IF Len(q.m_while_exit_stores_queue) = 0 THEN "fault" ELSE "ok",
             loc |-> set_final_while_body_store(loc, Front(q.m_while_exit_stores_queue)),
             q |-> [q EXCEPT !.m_while_exit_stores_queue = Pop(@)],
             from |-> "while_exit"]
       ELSE IF cnt # 0 /\ last_type = "WHILE"
       THEN [status |-> IF Len(q.m_while_body_stores_queue) = 0 THEN "fault" ELSE "ok",
             loc |-> set_previous_store(loc, Front(q.m_while_body_stores_queue)),
             q |-> [q EXCEPT !.m_while_body_stores_queue = Pop(@)],
             from |-> "while_body"]
       ELSE [status |-> "ok",
             loc |-> set_previous_store(loc, last_store),
             q |-> q,
             from |-> "previous"]

\* solve_system(): the pushes that follow the operation of Location loc
PushFinal(loc, q) ==
    LET s == get_last_store(loc)
    IN [q EXCEPT
          !.m_final_if_body_stores_queue = IF loc.ends_if_body THEN Push(@, s) ELSE @,
          !.m_final_else_body_stores_queue = IF loc.ends_else_body THEN Push(@, s) ELSE @,
          !.m_final_while_body_stores_queue = IF loc.ends_while_body THEN Push(@, s) ELSE @]

\* solve_system(): one turn of the loop over m_locations, for Location loc:
\* w is the Location with its input set, r the result of its m_operation()
solve_operation(w, r) ==
    IF r.status # "ok"
    THEN \* the input store is set, then m_operation() stops the process
         [status |-> r.status, loc |-> w.loc, q |-> w.q, verdict |-> "none"]
    ELSE [status |-> "ok", loc |-> r.loc, q |-> PushFinal(r.loc, r.q),
          verdict |-> r.verdict]
solve_wired(loc, q, should_evaluate, w) ==
    IF w.status # "ok"
    THEN [status |-> w.status, loc |-> loc, q |-> q, verdict |-> "none"]
    ELSE solve_operation(w, m_operation(w.loc, w.q, should_evaluate))
solve_step(loc, q, cnt, last, last_type, last_store, should_evaluate) ==
    solve_wired(loc, q, should_evaluate, Wire(loc, q, cnt, last, last_type, last_store))

\* the state after the turn of result n
SolveStepTo(n) ==
    /\ pc' = CASE n.status = "ok" -> "solve"
               [] n.status = "fault" -> "fault_solve"
               [] n.status = "abort" -> "aborted"
               [] OTHER -> "exited"
    /\ m_locations' = [m_locations EXCEPT ![counter + 1] = n.loc]
    /\ SetQueues(n.q)
    /\ output' = IF n.verdict = "none" THEN output
                 ELSE Append(output, [location |-> counter + 1, verdict |-> n.verdict])
    /\ last_interval_store' =
           IF n.status = "ok" THEN get_last_store(n.loc) ELSE last_interval_store
    /\ last_location' =
           IF n.status = "ok"
           THEN [ends_if_body |-> n.loc.ends_if_body,
                 ends_else_body |-> n.loc.ends_else_body,
                 ends_while_body |-> n.loc.ends_while_body]
           ELSE last_location
    /\ last_location_type' =
           IF n.status = "ok" THEN identify_type(n.loc) ELSE last_location_type
    /\ counter' = IF n.status = "ok" THEN counter + 1 ELSE counter

SolveStep ==
    /\ pc = "solve"
    /\ counter < Len(m_locations)
    /\ SolveStepTo(solve_step(m_locations[counter + 1], Queues, counter, last_location,
                              last_location_type, last_interval_store,
                              should_evaluate_postcondition))
    /\ UNCHANGED <<input, domain, process, memory, history, concrete, m_ast, m_precondition_store, m_old_locations,
                   should_evaluate_postcondition, it_count>>

\* run(): while (!is_stable()), then should_evaluate_postcondition = true
IsStable ==
    /\ pc = "solve"
    /\ counter = Len(m_locations)
    /\ ~replay
    /\ pc' = CASE is_stable(m_locations, m_old_locations) = "stable" -> "postconditions"
                [] is_stable(m_locations, m_old_locations) = "unstable" -> "iterate"
                [] OTHER -> "fault_is_stable"
    /\ should_evaluate_postcondition' = (pc' = "postconditions")
    /\ counter' = IF pc' = "postconditions" THEN 0 ELSE counter
    /\ first_pass' = IF it_count = 1 THEN <<m_locations, Queues>> ELSE first_pass
    /\ UNCHANGED <<input, domain, process, memory, replay, concrete, m_ast, m_precondition_store, m_locations,
                   m_old_locations, queues, last_location, last_location_type,
                   last_interval_store, it_count, output>>

\* evaluate_postconditions(): one turn of the loop over m_locations
evaluate_step(loc, q, should_evaluate) ==
    IF loc.type # "POSTCONDITION"
    THEN OpResult("ok", loc, q, "none")
    ELSE m_operation(loc, q, should_evaluate)

\* a verification phase that ends the process at the first verdict
\* "not satisfied"
EvaluateStopsOnViolation(n) ==
    /\ pc' = CASE n.status = "ok" /\ n.verdict # "not satisfied" -> "postconditions"
               [] n.status = "fault" -> "fault_postconditions"
               [] n.status = "abort" -> "aborted"
               [] OTHER -> "exited"
    /\ counter' = IF n.status = "ok" THEN counter + 1 ELSE counter
    /\ output' = IF n.verdict = "none" THEN output
                 ELSE Append(output, [location |-> counter + 1, verdict |-> n.verdict])

\* the state after the turn of result n
EvaluateTo(n) ==
    /\ pc' = CASE n.status = "ok" -> "postconditions"
               [] n.status = "fault" -> "fault_postconditions"
               [] n.status = "abort" -> "aborted"
               [] OTHER -> "exited"
    /\ counter' = IF n.status = "ok" THEN counter + 1 ELSE counter
    /\ output' = IF n.verdict = "none" THEN output
                 ELSE Append(output, [location |-> counter + 1, verdict |-> n.verdict])

EvaluatePostcondition ==
    /\ pc = "postconditions"
    /\ counter < Len(m_locations)
    /\ EvaluateTo(evaluate_step(m_locations[counter + 1], Queues,
                                should_evaluate_postcondition))
    /\ UNCHANGED <<input, domain, process, memory, history, concrete, m_ast, m_precondition_store, m_locations,
                   m_old_locations, queues, last_location, last_location_type,
                   last_interval_store, should_evaluate_postcondition, it_count>>

\* run(): evaluate_postconditions() has returned
Completed ==
    /\ pc = "postconditions"
    /\ counter = Len(m_locations)
    /\ pc' = "done"
    /\ UNCHANGED <<input, domain, process, memory, history, concrete, m_ast, m_precondition_store, m_locations, m_old_locations, queues,
                   solver, should_evaluate_postcondition, it_count, output>>

Next ==
    \/ Build
    \/ CopyLocations
    \/ SolveSystemBegin
    \/ SolveStep
    \/ IsStable
    \/ EvaluatePostcondition
    \/ Completed

Spec == Init /\ [][Next]_vars

\* solve_system() is run once more after a pass that is_stable() accepts:
\* the Locations of that pass are kept in m_old_locations
Replay ==
    /\ pc = "solve"
    /\ counter = Len(m_locations)
    /\ ~replay
    /\ is_stable(m_locations, m_old_locations) = "stable"
    /\ m_old_locations' = [i \in 1..Len(m_locations) |-> copy(m_locations[i])]
    /\ replay' = TRUE
    /\ pc' = "solve_system"
    /\ UNCHANGED <<input, domain, process, memory, first_pass, concrete, m_ast, m_precondition_store, m_locations,
                   queues, solver, should_evaluate_postcondition, it_count, output>>

SpecReplay == Init /\ [][Next \/ Replay]_vars

TypeOK == pc \in {"build", "iterate", "solve_system", "solve", "postconditions",
                  "done", "fault_build", "fault_solve", "fault_is_stable",
                  "fault_postconditions", "aborted", "exited"}

\* ------------------------------------------------------------------------
\* The structure of the program, read from the AST: for every position of
\* the Location list, the statement it stands for and, for the Locations
\* of an if or a while, the positions of the head, of the last Location of
\* each body, of the first Location of the else-body and of the end.
\* ------------------------------------------------------------------------
Plain(kind) ==
    [kind |-> kind, head |-> 0, then_tail |-> 0, else_first |-> 0, else_tail |-> 0,
     body_tail |-> 0, end |-> 0]

\* the positions of an if whose head is at head, with th and el the
\* structures of its bodies
if_structure(head, th, el, has_else) ==
    [kind |-> "IFELSE", head |-> head, then_tail |-> head + Len(th),
     else_first |-> IF has_else THEN head + Len(th) + 1 ELSE 0,
     else_tail |-> IF has_else THEN head + Len(th) + Len(el) ELSE 0,
     body_tail |-> 0, end |-> head + Len(th) + Len(el) + 1]
\* the positions of a while whose head is at head, with body the structure
\* of its body
while_structure(head, body) ==
    [kind |-> "WHILE", head |-> head, then_tail |-> 0, else_first |-> 0,
     else_tail |-> 0, body_tail |-> head + Len(body), end |-> head + Len(body) + 1]
Bracket(r, inner, end_kind) == <<r>> \o inner \o <<[r EXCEPT !.kind = end_kind]>>

RECURSIVE structure_of_block(_, _)
RECURSIVE structure_of_blocks(_, _, _)
RECURSIVE structure_of_rest(_, _, _, _)
RECURSIVE structure_of_else(_, _, _)
\* base: the number of Locations before the first one of blocks[i]
structure_of_rest(first, blocks, i, base) ==
    first \o structure_of_blocks(blocks, i, base + Len(first))
structure_of_blocks(blocks, i, base) ==
    IF i > Len(blocks) THEN <<>>
    ELSE structure_of_rest(structure_of_block(blocks[i], base), blocks, i + 1, base)

structure_of_else(block, head, th) ==
    IF Len(block.children) = 3
    THEN structure_of_blocks(BodyBlocks(block.children[3]), 1, head + Len(th))
    ELSE <<>>
structure_of_if(head, th, el, has_else) ==
    Bracket(if_structure(head, th, el, has_else), th \o el, "ENDIF")
structure_of_then(block, head, th) ==
    structure_of_if(head, th, structure_of_else(block, head, th), Len(block.children) = 3)
structure_of_while(head, body) ==
    Bracket(while_structure(head, body), body, "ENDWHILE")

structure_of_block(block, base) ==
    CASE block.type = "ASSIGNMENT" -> <<Plain("ASSIGNMENT")>>
      [] block.type = "POST_CON" -> <<Plain("POSTCONDITION")>>
      [] block.type = "IFELSE" ->
            structure_of_then(block, base + 1,
                structure_of_blocks(BodyBlocks(block.children[2]), 1, base + 1))
      [] block.type = "WHILELOOP" ->
            structure_of_while(base + 1,
                structure_of_blocks(BodyBlocks(block.children[2]), 1, base + 1))
      [] OTHER -> <<>>

IsStatement(block) == block.type \notin {"PRE_CON", "DECLARATION"}
Structure(ast) ==
    structure_of_blocks(SelectSeq(ast.children[Len(ast.children)].children, IsStatement), 1, 0)

\* the store a Location takes from its predecessor and the store it hands on
InputStore(loc) ==
    CASE loc.type = "ASSIGNMENT" -> loc.m_store_before
      [] loc.type = "POSTCONDITION" -> loc.m_store
      [] loc.type = "IFELSE" -> loc.m_store_before_condition
      [] loc.type = "WHILE" -> loc.m_store_before_condition
      [] OTHER -> nullptr
OutputStore(loc) ==
    CASE loc.type = "ASSIGNMENT" -> loc.m_store_after
      [] loc.type = "POSTCONDITION" -> loc.m_store
      [] loc.type = "ENDIF" -> loc.m_store_after
      [] loc.type = "ENDWHILE" -> loc.m_store_after
      [] OTHER -> nullptr

\* Location i has been given its input and has run in the current pass
Solved(i) == pc = "solve" /\ i <= counter

\* run() has stopped
Stopped == pc \in {"done", "exited", "aborted", "fault_build", "fault_solve",
                   "fault_is_stable", "fault_postconditions"}

\* two store pointers hold equal stores (IntervalStore::equals), or are both null
SameStore(a, b) == IF a.null \/ b.null THEN a.null = b.null ELSE equals(a, b)

\* the stores of a Location, by member
StoreFields(type) ==
    CASE type = "ASSIGNMENT" -> {"m_store_before", "m_store_after"}
      [] type = "POSTCONDITION" -> {"m_store"}
      [] type = "IFELSE" -> {"m_store_before_condition", "m_store_if_body", "m_store_else_body"}
      [] type = "ENDIF" -> {"m_store_before", "m_store_after_body", "m_store_after_else",
                            "m_store_after"}
      [] type = "WHILE" -> {"m_store_before_condition", "m_store_body", "m_store_exit"}
      [] type = "ENDWHILE" -> {"m_store_from_while", "m_store_after"}
SameStores(loc, old) == \A f \in StoreFields(loc.type) : SameStore(loc[f], old[f])

\* the join of two stores, variable by variable, with Interval::join
PointwiseJoin(a, b) ==
    [null |-> FALSE,
     keys |-> a.keys \cup b.keys,
     iv |-> [v \in VarNames |->
               IF v \in a.keys /\ v \in b.keys THEN join(a.iv[v], b.iv[v])
               ELSE IF v \in b.keys THEN b.iv[v] ELSE a.iv[v]]]

\* ------------------------------------------------------------------------
\* Concrete executions of the analysed program, one Location at a time
\* ------------------------------------------------------------------------
\* the values a variable starts with
ConcreteValues == {0 - 1, 0, 1, 4, 5, 6, 10}

\* the value of an expression in env; defined is FALSE when the value
\* leaves T or a divisor is zero
Value(defined, v) == [defined |-> defined /\ v >= min_T /\ v <= max_T, v |-> v]
concrete_op(op, l, r) ==
    CASE op = "ADD" -> Value(l.defined /\ r.defined, l.v + r.v)
      [] op = "SUB" -> Value(l.defined /\ r.defined, l.v - r.v)
      [] op = "MUL" -> Value(l.defined /\ r.defined, l.v * r.v)
      [] op = "DIV" -> IF r.v = 0 THEN Value(FALSE, 0)
                       ELSE Value(l.defined /\ r.defined, DivT(l.v, r.v))
      [] OTHER -> Value(FALSE, 0)
RECURSIVE concrete_value(_, _)
concrete_value(block, env) ==
    IF block.type = "INTEGER" THEN Value(TRUE, block.value)
    ELSE IF block.type = "VARIABLE" THEN Value(TRUE, env[block.value])
    ELSE concrete_op(block.value, concrete_value(block.children[1], env),
                     concrete_value(block.children[2], env))

\* the truth of a comparison of two values
concrete_compare(op, l, r) ==
    CASE op \in {"LEQ", "<="} -> l <= r
      [] op \in {"GEQ", ">="} -> l >= r
      [] op = "EQ" -> l = r
      [] op = "NEQ" -> l # r
      [] op = "LE" -> l < r
      [] op = "GE" -> l > r
concrete_condition(condition, env) ==
    concrete_compare(condition.value, concrete_value(condition.children[1], env).v,
                     concrete_value(condition.children[2], env).v)

\* env gives a value to the declared variables only and satisfies every
\* clause of the preconditions
Declared(ast) == {ast.children[1].children[i].value : i \in 1..Len(ast.children[1].children)}
SatisfiesPreconditions(ast, env) ==
    /\ \A v \in VarNames \ Declared(ast) : env[v] = 0
    /\ \A i \in 1..Len(ast.children[2].children) :
          ast.children[2].children[i].type = "PRE_CON" =>
              \A k \in 1..Len(ast.children[2].children[i].children) :
                  concrete_condition(ast.children[2].children[i].children[k], env)

\* the Location that runs after Location i has completed
Follow(structure, i) ==
    IF \E h \in 1..Len(structure) :
           structure[h].kind = "IFELSE" /\ structure[h].else_first # 0
           /\ structure[h].then_tail = i
    THEN structure[CHOOSE h \in 1..Len(structure) :
                       structure[h].kind = "IFELSE" /\ structure[h].else_first # 0
                       /\ structure[h].then_tail = i].end
    ELSE IF \E h \in 1..Len(structure) :
                structure[h].kind = "WHILE" /\ structure[h].body_tail = i
    THEN CHOOSE h \in 1..Len(structure) :
             structure[h].kind = "WHILE" /\ structure[h].body_tail = i
    ELSE i + 1

\* the condition at the head of an if or of a while
ConditionOf(loc) == loc.m_code_block.children[1].children[1]

\* the execution of Location i of the program in env
concrete_step(loc, place, structure, i, env) ==
    CASE loc.type = "ASSIGNMENT" ->
            [defined |-> concrete_value(loc.m_code_block.children[2], env).defined,
             env |-> [env EXCEPT ![loc.m_code_block.children[1].value] =
                         concrete_value(loc.m_code_block.children[2], env).v],
             at |-> Follow(structure, i)]
      [] loc.type = "IFELSE" ->
            [defined |-> TRUE, env |-> env,
             at |-> IF concrete_condition(ConditionOf(loc), env) THEN i + 1
                    ELSE IF place.else_first # 0 THEN place.else_first ELSE place.end]
      [] loc.type = "WHILE" ->
            [defined |-> TRUE, env |-> env,
             at |-> IF concrete_condition(ConditionOf(loc), env) THEN i + 1 ELSE place.end]
      [] OTHER -> [defined |-> TRUE, env |-> env, at |-> Follow(structure, i)]

\* an execution starts, in a state that satisfies the preconditions, once
\* the analysis has stopped
ConcreteStart ==
    /\ pc = "done"
    /\ c_at = 0
    /\ \E env \in [VarNames -> ConcreteValues \cup {0}] :
          /\ SatisfiesPreconditions(m_ast, env)
          /\ c_env' = env
    /\ c_at' = 1
    /\ UNCHANGED <<input, domain, process, memory, history, m_ast, m_precondition_store, m_locations,
                   m_old_locations, queues, solver, should_evaluate_postcondition, pc,
                   it_count, output>>

ConcreteTo(n) ==
    /\ n.defined
    /\ c_env' = n.env
    /\ c_at' = n.at

\* the execution runs the Location it has reached
ConcreteStep ==
    /\ pc = "done"
    /\ c_at \in 1..Len(m_locations)
    /\ ConcreteTo(concrete_step(m_locations[c_at], Structure(m_ast)[c_at],
                                Structure(m_ast), c_at, c_env))
    /\ UNCHANGED <<input, domain, process, memory, history, m_ast, m_precondition_store, m_locations,
                   m_old_locations, queues, solver, should_evaluate_postcondition, pc,
                   it_count, output>>

SpecConcrete == Init /\ [][Next \/ ConcreteStart \/ ConcreteStep]_vars

\* the store the solver holds for the point the execution has reached: the
\* input of a statement, the restricted store of the branch a loop head
\* takes, the store after an EndIfLocation or EndWhileLocation
PointStore(loc, env) ==
    CASE loc.type = "WHILE" ->
            IF concrete_condition(ConditionOf(loc), env)
            THEN loc.m_store_body ELSE loc.m_store_exit
      [] loc.type \in {"ENDIF", "ENDWHILE"} -> loc.m_store_after
      [] OTHER -> InputStore(loc)

\* every variable of the store holds an interval that is not empty and
\* contains the variable's value
Contains(store, env) ==
    /\ ~store.null
    /\ \A v \in store.keys :
          /\ ~store.iv[v].m_is_empty
          /\ store.iv[v].m_lb <= env[v]
          /\ env[v] <= store.iv[v].m_ub

\* ------------------------------------------------------------------------
\* The abstract domain called on its own: the operators of Interval<T>, the
\* join of IntervalStore<T>, evaluate_expression and the m_operation of a
\* single Location, on operands drawn from DomainValues
\* ------------------------------------------------------------------------
DomainValues == {min_T, 0 - 1, 0, 1, 2, 10, max_T}
\* the Interval objects the program can hold: the flag and the two bounds
\* are independent members
Intervals == [m_is_empty : BOOLEAN, m_lb : DomainValues, m_ub : DomainValues]
BinOps == {"ADD", "SUB", "MUL", "DIV"}
EmptyQueues ==
    [m_if_body_stores_queue |-> <<>>,
     m_else_body_stores_queue |-> <<>>,
     m_final_if_body_stores_queue |-> <<>>,
     m_final_else_body_stores_queue |-> <<>>,
     m_while_body_stores_queue |-> <<>>,
     m_while_exit_stores_queue |-> <<>>,
     m_final_while_body_stores_queue |-> <<>>]
program == <<input, m_ast, m_precondition_store, m_locations, m_old_locations, queues,
             solver, should_evaluate_postcondition, pc, it_count, output, history,
             concrete, process, memory>>

\* the store in which x holds left and y holds right
OperandStore(left, right) == set(set(IntervalStore, "x", left), "y", right)
\* the store in which x holds interval
VariableStore(interval) == set(IntervalStore, "x", interval)

InitDomain ==
    /\ d_left \in Intervals
    /\ d_right \in Intervals
    /\ d_call = <<"none">>
    /\ d_ret = <<>>
    /\ m_interval_store = IntervalStore
    /\ f_is_open = TRUE
    /\ exit_status = <<>>
    /\ heap = <<>>
    /\ written = {}
    /\ input = <<>>
    /\ m_ast = NoNode
    /\ m_precondition_store = IntervalStore
    /\ m_locations = <<>>
    /\ m_old_locations = <<>>
    /\ last_interval_store = IntervalStore
    /\ m_if_body_stores_queue = <<>>
    /\ m_else_body_stores_queue = <<>>
    /\ m_final_if_body_stores_queue = <<>>
    /\ m_final_else_body_stores_queue = <<>>
    /\ m_while_body_stores_queue = <<>>
    /\ m_while_exit_stores_queue = <<>>
    /\ m_final_while_body_stores_queue = <<>>
    /\ should_evaluate_postcondition = FALSE
    /\ pc = "domain"
    /\ it_count = 0
    /\ counter = 0
    /\ last_location = NoLocation
    /\ last_location_type = "ASSIGNMENT"
    /\ output = <<>>
    /\ first_pass = <<>>
    /\ replay = FALSE
    /\ c_at = 0
    /\ c_env = [v \in VarNames |-> 0]

\* evaluate_expression, case DIV: the warning written before left / right
division_warning(right) == containsValue(right, null_T)

\* what evaluate_expression returns and writes for left op right
arithmetic_result(op, right, status, interval) ==
    [status |-> status, interval |-> interval,
     warning |-> op = "DIV" /\ division_warning(right)]
\* T division by zero and min_T / -1 are undefined: the division traps (the
\* fault of arithm_op), or it does not and the operator goes on with the
\* wrapped quotients
arithm_outcomes(op, left, right, ev) ==
    {arithmetic_result(op, right, ev.status, ev.interval)} \cup
    IF ev.status = "fault"
    THEN {arithmetic_result(op, right, "ok",
                            IF op = "MUL" THEN IntervalMul(left, right)
                            ELSE IntervalDiv(left, right))}
    ELSE {}

\* evaluate_expression on x op y, x holding d_left and y holding d_right
EvaluateArithmetic ==
    /\ d_call = <<"none">>
    /\ \E op \in BinOps :
          /\ d_call' = <<"evaluate_expression", op>>
          /\ d_ret' \in arithm_outcomes(op, IntervalCopy(d_left), IntervalCopy(d_right),
                            evaluate_expression(Arith(op, X, Y),
                                                OperandStore(d_left, d_right)))
    /\ UNCHANGED <<program, d_left, d_right>>

\* a statement on x: an assignment x = x op c, or an if or a while whose
\* condition is x op c
TransferKinds == {"ASSIGNMENT", "IFELSE", "WHILE"}
TransferBlock(kind, op, c) ==
    CASE kind = "ASSIGNMENT" -> Assign("x", Arith(op, X, IntLit(c)))
      [] kind = "IFELSE" -> IfThen(Cond(op, X, c), <<Inc("x")>>)
      [] kind = "WHILE" -> While(Cond(op, X, c), <<Inc("x")>>)
\* the first Location manage_block builds for the block, given store as its
\* previous store and run with empty queues
transfer(block, store) ==
    m_operation(set_previous_store(manage_block(block).locs[1], store),
                EmptyQueues, FALSE)

\* the m_operation of an IfElseLocation and of a WhileLocation whose
\* condition is x op r, r the constant of d_right, x holding d_left
Refine ==
    /\ d_call = <<"none">>
    /\ ~d_right.m_is_empty
    /\ d_right.m_lb = d_right.m_ub
    /\ \E op \in LogicOps :
          /\ d_call' = <<"refine", op>>
          /\ d_ret' = [IFELSE |-> transfer(TransferBlock("IFELSE", op, d_right.m_lb),
                                           VariableStore(d_left)),
                       WHILE |-> transfer(TransferBlock("WHILE", op, d_right.m_lb),
                                          VariableStore(d_left))]
    /\ UNCHANGED <<program, d_left, d_right>>

\* the m_operation of one Location on two stores, x holding d_left in the
\* first and d_right in the second, the bounds of d_left within d_right's
Transfer ==
    /\ d_call = <<"none">>
    /\ d_right.m_lb <= d_left.m_lb
    /\ d_left.m_ub <= d_right.m_ub
    /\ \E kind \in TransferKinds :
       \E op \in (IF kind = "ASSIGNMENT" THEN {"ADD", "SUB", "MUL"} ELSE LogicOps) :
       \E c \in (IF kind = "ASSIGNMENT" THEN {1, 2} ELSE CondConsts) :
          /\ d_call' = <<"m_operation", kind, op, c>>
          /\ d_ret' = [below |-> transfer(TransferBlock(kind, op, c), VariableStore(d_left)),
                       above |-> transfer(TransferBlock(kind, op, c), VariableStore(d_right))]
    /\ UNCHANGED <<program, d_left, d_right>>

\* s.joinAll(s), x holding d_left and y holding d_right in s
JoinAllSelf ==
    /\ d_call = <<"none">>
    /\ d_call' = <<"joinAll">>
    /\ d_ret' = joinAll(OperandStore(d_left, d_right), OperandStore(d_left, d_right))
    /\ UNCHANGED <<program, d_left, d_right>>

\* I.meet(top), I.join(bottom) and I.meet(I), I being d_left and bottom the
\* empty interval d_right
MeetJoin ==
    /\ d_call = <<"none">>
    /\ d_right.m_is_empty
    /\ d_call' = <<"meet_join">>
    /\ d_ret' = [meet_top |-> meet(d_left, Interval(min_T, max_T)),
                 join_bottom |-> join(d_left, d_right),
                 meet_self |-> meet(d_left, d_left)]
    /\ UNCHANGED <<program, d_left, d_right>>

\* the m_operation of the PostConditionLocation of `x op y` in the
\* verification phase, x holding d_left and y holding d_right
Verdict ==
    /\ d_call = <<"none">>
    /\ \E op \in LogicOps :
          /\ d_call' = <<"postcondition", op>>
          /\ d_ret' = m_operation(set_previous_store(manage_block(PostCon(op, X, Y)).locs[1],
                                                    OperandStore(d_left, d_right)),
                                 EmptyQueues, TRUE)
    /\ UNCHANGED <<program, d_left, d_right>>

\* Interval::operator+ and operator-: the test that writes "Overflow
\* Encountered"; max_T - b and min_T + b are computed in T
overflow_warning(op, this, other) ==
    IF op = "ADD"
    THEN \/ this.m_lb > WrapT(max_T - other.m_ub)
         \/ this.m_ub > WrapT(max_T - other.m_lb)
    ELSE \/ this.m_lb < WrapT(min_T + other.m_ub)
         \/ this.m_ub < WrapT(min_T + other.m_lb)
\* d_left + d_right and d_left - d_right: the interval returned and whether
\* the warning is written
Operator ==
    /\ d_call = <<"none">>
    /\ \E op \in {"ADD", "SUB"} :
          /\ d_call' = <<"operator", op>>
          /\ d_ret' = [interval |-> IF op = "ADD" THEN IntervalAdd(d_left, d_right)
                                    ELSE IntervalSub(d_left, d_right),
                       warning |-> overflow_warning(op, d_left, d_right)]
    /\ UNCHANGED <<program, d_left, d_right>>

\* the right-hand sides of an assignment to x: x op y, or y alone
AssignedOps == BinOps \cup {"VAR"}
AssignedExpression(op) == IF op = "VAR" THEN Y ELSE Arith(op, X, Y)
\* the values the right-hand side can have: those of arithm_outcomes for
\* an operator, the one of evaluate_expression for a variable
assigned_values(op, left, right, ev) ==
    IF op = "VAR" THEN {ev}
    ELSE {[ev EXCEPT !.status = o.status, !.interval = o.interval] :
             o \in arithm_outcomes(op, left, right, ev)}
\* the m_operation of the AssignmentLocation ptr of x = e
assignment_outcomes(op, left, right, ptr) ==
    IF ptr.m_store_before.null THEN {OpResult("fault", ptr, EmptyQueues, "none")}
    ELSE {assignment_store(ptr, EmptyQueues, ev) :
             ev \in assigned_values(op, left, right,
                        evaluate_expression(ptr.m_code_block.children[2],
                                            ptr.m_store_before))}
\* the m_operation of the AssignmentLocation of x = x op y and of x = y,
\* x holding d_left and y holding d_right in its previous store
Assignment ==
    /\ d_call = <<"none">>
    /\ \E op \in AssignedOps :
          /\ d_call' = <<"assignment", op>>
          /\ d_ret' \in assignment_outcomes(op, IntervalCopy(d_left), IntervalCopy(d_right),
                            set_previous_store(
                                manage_block(Assign("x", AssignedExpression(op))).locs[1],
                                OperandStore(d_left, d_right)))
    /\ UNCHANGED <<program, d_left, d_right>>

NextDomain ==
    \/ Assignment
    \/ Operator
    \/ EvaluateArithmetic
    \/ Refine
    \/ Transfer
    \/ JoinAllSelf
    \/ MeetJoin
    \/ Verdict

SpecDomain == InitDomain /\ [][NextDomain]_vars

\* ------------------------------------------------------------------------
\* main and the AbstractInterpreter<T> it runs (interpreter.hpp).  The state
\* of an analysis: the status of the process ("ok", "exit" after exit(1),
\* "fault", "abort"), the two stores and the verdicts written.
\* ------------------------------------------------------------------------
\* Interval::normalize and Interval::contains(Interval&)
normalize(this) == Interval(Min2(this.m_lb, this.m_ub), Max2(this.m_lb, this.m_ub))
contains(this, other) == this.m_lb <= other.m_lb /\ this.m_ub >= other.m_ub

\* AbstractInterpreter::evaluate_variable_declaration
evaluate_variable_declaration(st, node) ==
    [st EXCEPT !.m_interval_store = set(@, node.value, Interval(min_T, max_T)),
               !.m_precondition_store = set(@, node.value, Interval(min_T, max_T))]

\* AbstractInterpreter::evaluate_precondition_logic_operation: the bound is
\* written to both stores, as add_precondition writes it to one
precondition_bounds(st, in_store, in_precondition) ==
    [st EXCEPT !.status = Worst(in_store.status, in_precondition.status),
               !.m_interval_store = in_store.store,
               !.m_precondition_store = in_precondition.store]
evaluate_precondition_logic_operation(st, node) ==
    precondition_bounds(st, add_precondition(st.m_interval_store, node),
                        add_precondition(st.m_precondition_store, node))

\* AbstractInterpreter::evaluate_assignment: result is the value of the
\* right-hand side (AbstractInterpreter::evaluate_expression reads
\* m_interval_store as EquationalInterpreter::evaluate_expression reads its
\* store argument)
assignment_result(st, var, result) ==
    IF result.status # "ok" THEN [st EXCEPT !.status = result.status]
    ELSE [st EXCEPT !.m_interval_store = set(result.store, var, result.interval)]
evaluate_assignment(st, node) ==
    assignment_result(st, node.children[1].value,
                      evaluate_expression(node.children[2], st.m_interval_store))

\* AbstractInterpreter::evaluate_postcondition: the test of each operator
postcondition_holds(op, left_interval, right_interval) ==
    CASE op = "LEQ" -> left_interval.m_ub <= right_interval.m_lb
      [] op = "GEQ" -> left_interval.m_lb >= right_interval.m_ub
      [] op = "EQ" -> /\ left_interval.m_lb = right_interval.m_lb
                      /\ left_interval.m_ub = right_interval.m_ub
      [] op = "NEQ" -> \/ left_interval.m_lb # right_interval.m_lb
                       \/ left_interval.m_ub # right_interval.m_ub
      [] op = "LE" -> left_interval.m_ub < right_interval.m_lb
      [] op = "GE" -> left_interval.m_lb > right_interval.m_ub
\* the case of LogicOp::GE calls exit(1) after the message; a postcondition
\* that holds writes nothing (its message is compiled under DEBUG only)
postcondition_result(st, op, left, right) ==
    IF Worst(left.status, right.status) # "ok"
    THEN [st EXCEPT !.status = Worst(left.status, right.status)]
    ELSE IF op \notin LogicOps
    THEN [st EXCEPT !.m_interval_store = right.store]
    ELSE IF postcondition_holds(op, left.interval, right.interval)
    THEN [st EXCEPT !.m_interval_store = right.store]
    ELSE [st EXCEPT !.m_interval_store = right.store,
                    !.out = Append(@, "not satisfied"),
                    !.status = IF op = "GE" THEN "exit" ELSE "ok"]
postcondition_operands(st, child, left) ==
    postcondition_result(st, child.value, left,
                         evaluate_expression(child.children[2], left.store))
evaluate_postcondition(st, node) ==
    postcondition_operands(st, node.children[1],
        evaluate_expression(node.children[1].children[1], st.m_interval_store))

\* AbstractInterpreter::evaluate_logic_expression: res is the value of the
\* right side
logic_expression_result(var, res) ==
    [status |-> IF res.status # "ok" THEN res.status
                ELSE IF res.interval.m_lb # res.interval.m_ub THEN "exit" ELSE "ok",
     interval |-> res.interval, var |-> var, store |-> res.store]
evaluate_logic_expression(node, store) ==
    IF node.children[1].type # "VARIABLE"
    THEN [status |-> "exit", interval |-> DefaultInterval, var |-> "", store |-> store]
    ELSE logic_expression_result(node.children[1].value,
                                 evaluate_expression(node.children[2], store))

RECURSIVE eval(_, _)
RECURSIVE eval_children(_, _, _)
\* the loops `for child : children` of eval and of evaluate_if_else
eval_children(st, children, i) ==
    IF i > Len(children) \/ st.status # "ok" THEN st
    ELSE eval_children(eval(st, children[i]), children, i + 1)

\* the assignment of one IntervalStore to another (m_interval_store =
\* original_store, left_store = IntervalStore<T>(m_interval_store)): the map
\* is assigned and each Interval built by Interval(const Interval&)
store_assignment(store) ==
    [store EXCEPT !.iv = [v \in VarNames |-> IF v \in store.keys THEN IntervalCopy(@[v]) ELSE @[v]]]
\* evaluate_if_else: the choice among left_store and right_store
if_else_admitted(left_admitted, right_admitted, left_store, after_right) ==
    IF after_right.status # "ok" THEN after_right
    ELSE IF left_admitted /\ right_admitted
    THEN [after_right EXCEPT !.m_interval_store =
             store_assignment(joinAll(store_assignment(@), left_store))]
    ELSE IF left_admitted
    THEN [after_right EXCEPT !.m_interval_store = store_assignment(left_store)]
    ELSE IF right_admitted
    THEN [after_right EXCEPT !.m_interval_store = store_assignment(@)]
    ELSE [after_right EXCEPT !.status = "exit"]
\* evaluate_if_else: the else-body on right_interval, after_left being the
\* analysis after the else-body on left_interval
if_else_right(else_body, var, right_interval, original_interval, original_store, left_admitted, after_left) ==
    IF after_left.status # "ok" THEN after_left
    ELSE if_else_admitted(left_admitted, contains(original_interval, right_interval),
             store_assignment(IF left_admitted THEN after_left.m_interval_store
                              ELSE original_store),
             IF contains(original_interval, right_interval)
             THEN eval_children([after_left EXCEPT
                                    !.m_interval_store = set(@, var, right_interval)],
                                else_body.children, 1)
             ELSE after_left)
\* evaluate_if_else: the else-body on left_interval
if_else_left(else_body, var, left_interval, right_interval, original_interval, original_store, st) ==
    if_else_right(else_body, var, right_interval, original_interval, original_store,
                  contains(original_interval, left_interval),
                  IF contains(original_interval, left_interval)
                  THEN eval_children([st EXCEPT
                                         !.m_interval_store = set(@, var, left_interval)],
                                     else_body.children, 1)
                  ELSE st)
\* evaluate_if_else: the final joinAll with if_body_store
if_else_join(body_admitted, if_body_store, st) ==
    IF st.status # "ok" \/ ~body_admitted THEN st
    ELSE [st EXCEPT !.m_interval_store = joinAll(@, if_body_store)]
\* evaluate_if_else: after_body is the analysis after the if-body
if_else_else(node, var, if_body_interval, original_interval, original_store, body_admitted, after_body) ==
    IF after_body.status # "ok" THEN after_body
    ELSE if_else_join(body_admitted, after_body.m_interval_store,
             IF Len(node.children) = 3
             THEN if_else_left(node.children[3], var,
                      normalize(Interval(original_interval.m_lb,
                                         WrapT(if_body_interval.m_lb - 1))),
                      normalize(Interval(WrapT(if_body_interval.m_ub + 1),
                                         original_interval.m_ub)),
                      original_interval, original_store,
                      [after_body EXCEPT !.m_interval_store = store_assignment(original_store)])
             ELSE [after_body EXCEPT !.m_interval_store = store_assignment(original_store)])
\* evaluate_if_else: the if-body, st holding original_store
if_else_body(node, var, if_body_interval, original_interval, st) ==
    if_else_else(node, var, if_body_interval, original_interval, st.m_interval_store,
                 contains(original_interval, if_body_interval),
                 IF contains(original_interval, if_body_interval)
                 THEN eval_children([st EXCEPT
                                        !.m_interval_store = set(@, var, if_body_interval)],
                                    node.children[2].children, 1)
                 ELSE st)
\* evaluate_if_else: cond is what evaluate_logic_expression returned
if_else_condition(st, node, cond) ==
    IF cond.status # "ok" THEN [st EXCEPT !.status = cond.status]
    ELSE if_else_body(node, cond.var, cond.interval,
                      IntervalCopy(get(cond.store, cond.var)),
                      [st EXCEPT !.m_interval_store = touch(cond.store, cond.var)])
\* AbstractInterpreter::evaluate_if_else
evaluate_if_else(st, node) ==
    IF node.children[1].children[1].value # "EQ" THEN [st EXCEPT !.status = "exit"]
    ELSE if_else_condition(st, node,
             evaluate_logic_expression(node.children[1].children[1], st.m_interval_store))

RECURSIVE evaluate_each(_, _, _, _)
\* eval, cases DECLARATION and PRE_CON: the loop over the children
evaluate_each(st, type, children, i) ==
    IF i > Len(children) \/ st.status # "ok" THEN st
    ELSE evaluate_each(IF type = "DECLARATION"
                       THEN evaluate_variable_declaration(st, children[i])
                       ELSE evaluate_precondition_logic_operation(st, children[i]),
                       type, children, i + 1)
\* AbstractInterpreter::eval
eval(st, node) ==
    CASE node.type \in {"DECLARATION", "PRE_CON"} ->
            evaluate_each(st, node.type, node.children, 1)
      [] node.type = "SEQUENCE" -> eval_children(st, node.children, 1)
      [] node.type = "ASSIGNMENT" -> evaluate_assignment(st, node)
      [] node.type = "POST_CON" -> evaluate_postcondition(st, node)
      [] node.type = "IFELSE" -> evaluate_if_else(st, node)
      [] OTHER -> [st EXCEPT !.status = "exit"]

\* AbstractInterpreter::run on a newly constructed interpreter
AbstractInterpreter_run(ast) ==
    eval_children([status |-> "ok", m_interval_store |-> IntervalStore,
                   m_precondition_store |-> IntervalStore, out |-> <<>>],
                  ast.children, 1)

\* the programs given to main
MainTemplates == {1, 2, 3, 4, 5, 9, 10, 17, 18, 19, 20}
equational == <<m_locations, m_old_locations, queues, solver,
                should_evaluate_postcondition, it_count, history, concrete, domain,
                memory>>

InitMain ==
    /\ \E t \in MainTemplates :
       \E op \in (IF UsesCond(t) THEN LogicOps ELSE {"LE"}) :
       \E c \in (IF UsesConst(t) THEN CondConsts ELSE {0}) :
       \E b \in (IF UsesPre(t) THEN PreBounds ELSE {<<0, 0>>}) :
           input = <<t, op, c, b[1], b[2]>>
    /\ f_is_open \in BOOLEAN
    /\ exit_status = <<>>
    /\ m_interval_store = IntervalStore
    /\ m_ast = NoNode
    /\ heap = <<>>
    /\ written = {}
    /\ m_precondition_store = IntervalStore
    /\ m_locations = <<>>
    /\ m_old_locations = <<>>
    /\ last_interval_store = IntervalStore
    /\ m_if_body_stores_queue = <<>>
    /\ m_else_body_stores_queue = <<>>
    /\ m_final_if_body_stores_queue = <<>>
    /\ m_final_else_body_stores_queue = <<>>
    /\ m_while_body_stores_queue = <<>>
    /\ m_while_exit_stores_queue = <<>>
    /\ m_final_while_body_stores_queue = <<>>
    /\ should_evaluate_postcondition = FALSE
    /\ pc = "main"
    /\ it_count = 0
    /\ counter = 0
    /\ last_location = NoLocation
    /\ last_location_type = "ASSIGNMENT"
    /\ output = <<>>
    /\ first_pass = <<>>
    /\ replay = FALSE
    /\ c_at = 0
    /\ c_env = [v \in VarNames |-> 0]
    /\ d_left = DefaultInterval
    /\ d_right = DefaultInterval
    /\ d_call = <<"none">>
    /\ d_ret = <<>>

\* main: the file cannot be opened
MainCannotOpen ==
    /\ pc = "main"
    /\ ~f_is_open
    /\ exit_status' = <<1>>
    /\ pc' = "returned"
    /\ UNCHANGED <<input, m_ast, m_precondition_store, m_interval_store, f_is_open,
                   output, equational>>

\* main: the file is read and the AbstractInterpreter constructed from it
MainConstruct ==
    /\ pc = "main"
    /\ f_is_open
    /\ m_ast' = Template(input[1], input[2], input[3], input[4], input[5])
    /\ pc' = "constructed"
    /\ UNCHANGED <<input, m_precondition_store, m_interval_store, f_is_open, exit_status,
                   output, equational>>

\* AI.run(), analysis being the interpreter when it returns or when the
\* process ends in it
MainRunTo(analysis) ==
    /\ m_interval_store' = analysis.m_interval_store
    /\ m_precondition_store' = analysis.m_precondition_store
    /\ output' = analysis.out
    /\ pc' = CASE analysis.status = "ok" -> "analyzed"
               [] analysis.status = "exit" -> "exited"
               [] analysis.status = "abort" -> "aborted"
               [] OTHER -> "fault_run"
    /\ exit_status' = IF analysis.status = "exit" THEN <<1>> ELSE exit_status
MainRun ==
    /\ pc = "constructed"
    /\ MainRunTo(AbstractInterpreter_run(m_ast))
    /\ UNCHANGED <<input, m_ast, f_is_open, equational>>

\* main: return 0
MainReturn ==
    /\ pc = "analyzed"
    /\ exit_status' = <<0>>
    /\ pc' = "returned"
    /\ UNCHANGED <<input, m_ast, m_precondition_store, m_interval_store, f_is_open,
                   output, equational>>

NextMain ==
    \/ MainCannotOpen
    \/ MainConstruct
    \/ MainRun
    \/ MainReturn

SpecMain == InitMain /\ [][NextMain]_vars

\* ------------------------------------------------------------------------
\* The stores as objects.  In this specification every
\* std::shared_ptr<IntervalStore<T>> (the store fields of the Locations of
\* m_locations and m_old_locations, the entries of the seven queues,
\* last_interval_store) is a pointer into heap, so that two pointers to one
\* object are told apart from two equal stores; nullptr is the null pointer.
\* The run of the interpreter is followed at this level for every program.
\* ------------------------------------------------------------------------
\* the pointer to the object at address at
pointer(at) == [null |-> FALSE, at |-> at]
\* std::make_shared<IntervalStore<T>>(store): a new object
new_store(h, store) == [heap |-> Append(h, store), ptr |-> pointer(Len(h) + 1)]
\* a pointer assignment done as a copy into the object pointed to
overwrite_store_after(h, m_store_after, store) ==
    [heap |-> [h EXCEPT ![m_store_after.at] = store], ptr |-> m_store_after]
\* AssignmentLocation m_operation:
\* ptr->m_store_after = std::make_shared<IntervalStore<T>>(store)
assign_store_after(h, m_store_after, store) == new_store(h, store)

\* *p
StoreAt(h, p) == IF p.null THEN nullptr ELSE h[p.at]
\* the Location with the contents of the objects its pointers refer to
Deref(loc, h) ==
    [f \in DOMAIN loc |-> IF f \in StoreFields(loc.type) THEN StoreAt(h, loc[f]) ELSE loc[f]]
DerefAll(locs, h) == [i \in 1..Len(locs) |-> Deref(locs[i], h)]
\* the queues with the contents of the objects their entries refer to
DerefQueues(q, h) ==
    [k \in DOMAIN q |-> [i \in 1..Len(q[k]) |-> StoreAt(h, q[k][i])]]

\* manage_block: the new Location of a block, its stores being the objects
\* made by std::make_shared<IntervalStore<T>>() after those of h
heap_location(block, h) ==
    CASE block.type = "ASSIGNMENT" ->
            [AssignmentLocation(block) EXCEPT !.m_store_before = pointer(Len(h) + 1),
                                              !.m_store_after = pointer(Len(h) + 2)]
      [] block.type = "POST_CON" ->
            [PostConditionLocation(block) EXCEPT !.m_store = pointer(Len(h) + 1)]
      [] block.type = "IFELSE" ->
            [IfElseLocation(block) EXCEPT !.m_store_before_condition = pointer(Len(h) + 1),
                                          !.m_store_if_body = pointer(Len(h) + 2),
                                          !.m_store_else_body = pointer(Len(h) + 3)]
      [] block.type = "WHILELOOP" ->
            [WhileLocation(block) EXCEPT !.m_store_before_condition = pointer(Len(h) + 1),
                                         !.m_store_body = pointer(Len(h) + 2),
                                         !.m_store_exit = pointer(Len(h) + 3)]
heap_allocated(block, h) ==
    CASE block.type = "ASSIGNMENT" -> h \o <<IntervalStore, IntervalStore>>
      [] block.type = "POST_CON" -> Append(h, IntervalStore)
      [] OTHER -> h \o <<IntervalStore, IntervalStore, IntervalStore>>

RECURSIVE heap_manage_block(_, _)
RECURSIVE heap_manage_blocks(_, _, _)
RECURSIVE heap_body_locations(_, _)
\* the loop "for each block: manage_block(block)", h being the heap before
heap_manage_rest(first, blocks, i) ==
    IF first.status # "ok" THEN first
    ELSE [heap_manage_blocks(blocks, i, first.heap) EXCEPT !.locs = first.locs \o @]
heap_manage_blocks(blocks, i, h) ==
    IF i > Len(blocks) THEN [status |-> "ok", locs |-> <<>>, heap |-> h]
    ELSE heap_manage_rest(heap_manage_block(blocks[i], h), blocks, i + 1)
heap_body_locations(wrapper, h) ==
    IF Len(wrapper.children) = 0 THEN [status |-> "fault", locs |-> <<>>, heap |-> h]
    ELSE heap_manage_blocks(BodyBlocks(wrapper), 1, h)
\* manage_block, case IFELSE: the EndIfLocation is given the pointers
\* get_last_store() returns for the last Location of each body, or the
\* head's m_store_else_body
heap_if_else_end(block, head, ifb, elb) ==
    [status |-> elb.status, heap |-> elb.heap,
     locs |-> if_else_locations(head, MarkLast(<<head>> \o ifb.locs, "if"), elb.locs,
                                Len(block.children) = 3)]
heap_if_else_block(block, head, ifb) ==
    IF ifb.status # "ok" THEN ifb
    ELSE heap_if_else_end(block, head, ifb,
             IF Len(block.children) = 3
             THEN heap_body_locations(block.children[3], ifb.heap)
             ELSE [status |-> "ok", locs |-> <<>>, heap |-> ifb.heap])
\* manage_block, case WHILELOOP
heap_while_block(head, body) ==
    [status |-> body.status, heap |-> body.heap,
     locs |-> MarkLast(<<head>> \o body.locs, "while") \o <<EndWhileLocation>>]
\* EquationalInterpreter::manage_block with the objects it makes
heap_manage_block(block, h) ==
    CASE block.type \in {"ASSIGNMENT", "POST_CON"} ->
            [status |-> "ok", locs |-> <<heap_location(block, h)>>,
             heap |-> heap_allocated(block, h)]
      [] block.type = "IFELSE" ->
            heap_if_else_block(block, heap_location(block, h),
                heap_body_locations(block.children[2], heap_allocated(block, h)))
      [] block.type = "WHILELOOP" ->
            heap_while_block(heap_location(block, h),
                heap_body_locations(block.children[2], heap_allocated(block, h)))
      [] OTHER -> [status |-> "exit", locs |-> <<>>, heap |-> h]
\* build_equational_system: the loop over the blocks after the preconditions
heap_code_blocks(code_blocks, prec, h) == heap_manage_blocks(code_blocks, prec.next, h)
heap_declared(ast, decl, h) ==
    heap_code_blocks(ast.children[decl.next].children,
                     precondition_blocks([status |-> "ok", store |-> decl.store],
                                         ast.children[decl.next].children, 1), h)
\* build_equational_system, h being the objects there are before it
heap_build(ast, h) == heap_declared(ast, declare_blocks(IntervalStore, ast.children, 1), h)

\* the store fields of each class, in the order copy() copies them
copy_fields(type) ==
    CASE type = "ASSIGNMENT" -> <<"m_store_before", "m_store_after">>
      [] type = "POSTCONDITION" -> <<"m_store">>
      [] type = "IFELSE" -> <<"m_store_before_condition", "m_store_if_body",
                              "m_store_else_body">>
      [] type = "ENDIF" -> <<"m_store_before", "m_store_after_body", "m_store_after_else",
                             "m_store_after">>
      [] type = "WHILE" -> <<"m_store_before_condition", "m_store_body", "m_store_exit">>
      [] type = "ENDWHILE" -> <<"m_store_from_while", "m_store_after">>
\* copy(): the store fields that are not null, each of which is copied into
\* a new object by std::make_shared<IntervalStore<T>>(*field)
copied_stores(loc) == SelectSeq(copy_fields(loc.type), LAMBDA f : ~loc[f].null)
\* the place of field f among them
copied_at(loc, f) == CHOOSE k \in 1..Len(copied_stores(loc)) : copied_stores(loc)[k] = f
\* the objects copy() makes, in the order it makes them
copied_objects(loc, h) ==
    [k \in 1..Len(copied_stores(loc)) |-> h[loc[copied_stores(loc)[k]].at]]
\* copy() of each Location class: the new objects follow the base objects
\* there were; a null store stays null
copy_pointers(loc, base) ==
    [f \in DOMAIN loc |->
        IF f \in StoreFields(loc.type) /\ ~loc[f].null
        THEN pointer(base + copied_at(loc, f))
        ELSE copy(loc)[f]]
RECURSIVE copied_before(_, _)
\* the number of objects made by the copies of the Locations before the i-th
copied_before(locs, i) ==
    IF i = 1 THEN 0 ELSE copied_before(locs, i - 1) + Len(copied_stores(locs[i - 1]))
RECURSIVE copied_from(_, _, _)
\* the objects made by the copies of the Locations from the i-th on
copied_from(locs, i, h) ==
    IF i > Len(locs) THEN <<>>
    ELSE copied_objects(locs[i], h) \o copied_from(locs, i + 1, h)
\* copy_locations(): m_old_locations holds a copy of each Location
copy_all_pointers(locs, h) ==
    [heap |-> h \o copied_from(locs, 1, h),
     locs |-> [i \in 1..Len(locs) |-> copy_pointers(locs[i], Len(h) + copied_before(locs, i))]]

\* the programs followed at this level
HeapTemplates == Templates
unshared == <<history, concrete, domain, process>>

\* the state after construction: EquationalInterpreter() and
\* EquationalInterpreter(ast) leave last_interval_store null,
\* EquationalInterpreter(input) points it at a new object, a copy of the
\* empty m_precondition_store
InitHeap ==
    /\ \E t \in HeapTemplates :
       \E op \in (IF UsesCond(t) THEN LogicOps ELSE {"LE"}) :
       \E c \in (IF UsesConst(t) THEN CondConsts ELSE {0}) :
       \E b \in (IF UsesPre(t) THEN PreBounds ELSE {<<0, 0>>}) :
           /\ input = <<t, op, c, b[1], b[2]>>
           /\ m_ast = Template(t, op, c, b[1], b[2])
    /\ \E constructed \in {[heap |-> <<>>, ptr |-> nullptr], new_store(<<>>, IntervalStore)} :
           /\ heap = constructed.heap
           /\ last_interval_store = constructed.ptr
    /\ written = {}
    /\ m_precondition_store = IntervalStore
    /\ m_locations = <<>>
    /\ m_old_locations = <<>>
    /\ m_if_body_stores_queue = <<>>
    /\ m_else_body_stores_queue = <<>>
    /\ m_final_if_body_stores_queue = <<>>
    /\ m_final_else_body_stores_queue = <<>>
    /\ m_while_body_stores_queue = <<>>
    /\ m_while_exit_stores_queue = <<>>
    /\ m_final_while_body_stores_queue = <<>>
    /\ should_evaluate_postcondition = FALSE
    /\ pc = "build"
    /\ it_count = 0
    /\ counter = 0
    /\ last_location = NoLocation
    /\ last_location_type = "ASSIGNMENT"
    /\ output = <<>>
    /\ first_pass = <<>>
    /\ replay = FALSE
    /\ c_at = 0
    /\ c_env = [v \in VarNames |-> 0]
    /\ d_left = DefaultInterval
    /\ d_right = DefaultInterval
    /\ d_call = <<"none">>
    /\ d_ret = <<>>
    /\ m_interval_store = IntervalStore
    /\ f_is_open = TRUE
    /\ exit_status = <<>>

\* run(): build_equational_system()
HeapBuildTo(built, allocated) ==
    /\ m_precondition_store' = built.m_precondition_store
    /\ m_locations' = IF built.status = "ok" THEN allocated.locs ELSE <<>>
    /\ heap' = IF built.status = "ok" THEN allocated.heap ELSE heap
    /\ pc' = CASE built.status = "ok" -> "iterate"
               [] built.status = "fault" -> "fault_build"
               [] built.status = "abort" -> "aborted"
               [] OTHER -> "exited"
HeapBuild ==
    /\ pc = "build"
    /\ HeapBuildTo(build_equational_system(m_ast), heap_build(m_ast, heap))
    /\ UNCHANGED <<input, m_ast, m_old_locations, queues, solver, written,
                   should_evaluate_postcondition, it_count, output, unshared>>

\* run(): copy_locations()
HeapCopyTo(copied) ==
    /\ heap' = copied.heap
    /\ m_old_locations' = copied.locs
HeapCopyLocations ==
    /\ pc = "iterate"
    /\ it_count < MaxCount
    /\ HeapCopyTo(copy_all_pointers(m_locations, heap))
    /\ it_count' = it_count + 1
    /\ pc' = "solve_system"
    /\ UNCHANGED <<input, m_ast, m_precondition_store, m_locations, queues, solver, written,
                   should_evaluate_postcondition, output, unshared>>

\* solve_system(): last_interval_store = make_shared(m_precondition_store)
HeapSolveSystemBegin ==
    /\ pc = "solve_system"
    /\ heap' = new_store(heap, m_precondition_store).heap
    /\ last_interval_store' = new_store(heap, m_precondition_store).ptr
    /\ last_location_type' = "ASSIGNMENT"
    /\ last_location' = NoLocation
    /\ counter' = 0
    /\ written' = {}
    /\ pc' = "solve"
    /\ UNCHANGED <<input, m_ast, m_precondition_store, m_locations, m_old_locations, queues,
                   should_evaluate_postcondition, it_count, output, unshared>>

\* the result of a turn: Location, queues and verdict (of pointers), with
\* the heap after it and the objects written into
HeapResult(status, loc, q, verdict, h, objects) ==
    [status |-> status, loc |-> loc, q |-> q, verdict |-> verdict, heap |-> h,
     written |-> objects]
\* AssignmentLocation m_operation: published is the new m_store_after, on
\* which set(var, interval) has been called
heap_assignment(w, published) ==
    HeapResult("ok", [w.loc EXCEPT !.m_store_after = published.ptr], w.q, "none",
               published.heap, {published.ptr.at})
\* IfElseLocation m_operation: m_store_if_body and m_store_else_body are
\* two new objects, pushed on the queues
heap_if_else(w, pushed, h, if_body_store, else_body_store) ==
    HeapResult("ok", pushed.loc, pushed.q, "none",
               h \o <<if_body_store, else_body_store>>, {Len(h) + 1, Len(h) + 2})
\* WhileLocation m_operation: m_store_body and m_store_exit are two new
\* objects, pushed on the queues; the store fed back is popped
heap_while(w, pushed, h, while_body_store, while_exit_store) ==
    HeapResult("ok", pushed.loc, pushed.q, "none",
               h \o <<while_body_store, while_exit_store>>, {Len(h) + 1, Len(h) + 2})
\* EndIfLocation and EndWhileLocation m_operation: m_store_after is a new
\* object
heap_end(w, h, store) ==
    HeapResult("ok", [w.loc EXCEPT !.m_store_after = pointer(Len(h) + 1)], w.q, "none",
               Append(h, store), {Len(h) + 1})
\* m_operation() of the Location w.loc, n being what it computes from the
\* contents of the objects
heap_operation(w, n, h) ==
    IF n.status # "ok" THEN HeapResult(n.status, w.loc, w.q, "none", h, {})
    ELSE CASE w.loc.type = "ASSIGNMENT" ->
                 heap_assignment(w, assign_store_after(h, w.loc.m_store_after,
                                                       n.loc.m_store_after))
           [] w.loc.type = "IFELSE" ->
                 heap_if_else(w, if_else_push(w.loc, w.q,
                                              Len(w.loc.m_code_block.children) = 3,
                                              pointer(Len(h) + 1), pointer(Len(h) + 2)),
                              h, n.loc.m_store_if_body, n.loc.m_store_else_body)
           [] w.loc.type = "WHILE" ->
                 heap_while(w, while_push(w.loc, w.q, pointer(Len(h) + 1),
                                          pointer(Len(h) + 2)),
                            h, n.loc.m_store_body, n.loc.m_store_exit)
           [] w.loc.type \in {"ENDIF", "ENDWHILE"} -> heap_end(w, h, n.loc.m_store_after)
           [] OTHER -> HeapResult("ok", w.loc, w.q, n.verdict, h, {})
\* solve_system(): the pushes of get_last_store() that follow the operation
heap_pushed(r) ==
    IF r.status # "ok" THEN r ELSE [r EXCEPT !.q = PushFinal(r.loc, r.q)]
\* solve_system(): one turn of the loop over m_locations: w is the Location
\* with its input pointers set
heap_solve_wired(loc, q, should_evaluate, h, w) ==
    IF w.status # "ok" THEN HeapResult(w.status, loc, q, "none", h, {})
    ELSE heap_pushed(heap_operation(w, m_operation(Deref(w.loc, h), DerefQueues(w.q, h),
                                                   should_evaluate), h))
heap_solve_step(loc, q, cnt, last, last_type, last_store, should_evaluate, h) ==
    heap_solve_wired(loc, q, should_evaluate, h,
                     Wire(loc, q, cnt, last, last_type, last_store))
HeapSolveStepTo(n) ==
    /\ SolveStepTo(n)
    /\ heap' = n.heap
    /\ written' = n.written
HeapSolveStep ==
    /\ pc = "solve"
    /\ counter < Len(m_locations)
    /\ HeapSolveStepTo(heap_solve_step(m_locations[counter + 1], Queues, counter,
                                       last_location, last_location_type,
                                       last_interval_store,
                                       should_evaluate_postcondition, heap))
    /\ UNCHANGED <<input, m_ast, m_precondition_store, m_old_locations,
                   should_evaluate_postcondition, it_count, unshared>>

\* run(): while (!is_stable()), then should_evaluate_postcondition = true
HeapIsStableTo(stable) ==
    /\ pc' = CASE stable = "stable" -> "postconditions"
               [] stable = "unstable" -> "iterate"
               [] OTHER -> "fault_is_stable"
    /\ should_evaluate_postcondition' = (stable = "stable")
    /\ counter' = IF stable = "stable" THEN 0 ELSE counter
HeapIsStable ==
    /\ pc = "solve"
    /\ counter = Len(m_locations)
    /\ HeapIsStableTo(is_stable(DerefAll(m_locations, heap), DerefAll(m_old_locations, heap)))
    /\ UNCHANGED <<input, m_ast, m_precondition_store, m_locations, m_old_locations, queues,
                   last_location, last_location_type, last_interval_store, memory,
                   it_count, output, unshared>>

\* evaluate_postconditions(): one turn of the loop over m_locations
HeapEvaluatePostcondition ==
    /\ pc = "postconditions"
    /\ counter < Len(m_locations)
    /\ EvaluateTo(evaluate_step(Deref(m_locations[counter + 1], heap),
                                DerefQueues(Queues, heap), should_evaluate_postcondition))
    /\ UNCHANGED <<input, m_ast, m_precondition_store, m_locations, m_old_locations, queues,
                   last_location, last_location_type, last_interval_store, memory,
                   should_evaluate_postcondition, it_count, unshared>>

HeapCompleted ==
    /\ pc = "postconditions"
    /\ counter = Len(m_locations)
    /\ pc' = "done"
    /\ UNCHANGED <<input, m_ast, m_precondition_store, m_locations, m_old_locations, queues,
                   solver, memory, should_evaluate_postcondition, it_count, output,
                   unshared>>

NextHeap ==
    \/ HeapBuild
    \/ HeapCopyLocations
    \/ HeapSolveSystemBegin
    \/ HeapSolveStep
    \/ HeapIsStable
    \/ HeapEvaluatePostcondition
    \/ HeapCompleted

SpecHeap == InitHeap /\ [][NextHeap]_vars

\* ------------------------------------------------------------------------
\* Properties
\* ------------------------------------------------------------------------

\* C1: whenever an execution that starts in a state satisfying the
\* preconditions reaches a program point, the store the solver holds for
\* that point once the iteration has stopped contains the value of every
\* variable.
C1_Sound ==
    (pc = "done" /\ c_at \in 1..Len(m_locations))
        => Contains(PointStore(m_locations[c_at], c_env), c_env)

\* C2: the iterate-until-stable loop of run() terminates for every program.
\* Every pass is a function of the Locations and the queues it starts
\* with, so a run that terminates never ends a later pass, unstable, with
\* the Locations and the queues with which it ended the first pass.
C2_NoPassRecurs ==
    ~(pc = "iterate" /\ it_count > 1 /\ first_pass = <<m_locations, Queues>>)

\* C3: once a pass ends with every Location stable, running solve_system()
\* once more leaves every store of every Location equal to its value after
\* that pass.
C3_IdempotentAtFixpoint ==
    (replay /\ pc = "solve") =>
        \A i \in 1..counter : SameStores(m_locations[i], m_old_locations[i])

\* C4: for `x = 0; while (x < 10) { x = x + 1 }; postcondition x == 10` the
\* run stops converged, the exit store of the WhileLocation has x = [10,10]
\* and the postcondition after the loop is reported satisfied.
C4_CountingLoop ==
    (input[1] = 5 /\ Stopped) =>
        /\ pc = "done"
        /\ m_locations[2].m_store_exit.iv["x"] = Interval(10, 10)
        /\ output = <<[location |-> 5, verdict |-> "satisfied"]>>

\* C5: in every pass, the Location that follows an EndWhileLocation in
\* m_locations is given the EndWhileLocation's m_store_after of that pass,
\* which is a store and not a null pointer.
C5_AfterEndWhile ==
    \A i \in 1..(Len(m_locations) - 1) :
        ( /\ m_locations[i].type = "ENDWHILE"
          /\ m_locations[i + 1].type \in {"ASSIGNMENT", "POSTCONDITION", "IFELSE", "WHILE"}
          /\ \A h \in 1..Len(m_locations) : Structure(m_ast)[h].else_first # i + 1
          /\ (Solved(i + 1) \/ (pc = "fault_solve" /\ counter = i)) )
        => /\ ~InputStore(m_locations[i + 1]).null
           /\ InputStore(m_locations[i + 1]) = m_locations[i].m_store_after

\* C6: a WhileLocation that runs joins nothing on the first pass, and on
\* every later pass takes from the feedback queue the output that the last
\* Location of its own body produced on the previous pass.
C6_OwnFeedback ==
    [][ \A i \in 1..Len(m_locations) :
          ( /\ pc = "solve" /\ counter = i - 1 /\ m_locations[i].type = "WHILE"
            /\ pc' = "solve" /\ counter' = i )
          => IF it_count = 1
             THEN m_final_while_body_stores_queue = <<>>
             ELSE /\ m_final_while_body_stores_queue # <<>>
                  /\ Head(m_final_while_body_stores_queue) =
                         OutputStore(m_locations[Structure(m_ast)[i].body_tail]) ]_vars

\* C7: the first Location of an else-body is given the m_store_else_body
\* that the IfElseLocation of its own if computed in the same pass.
C7_OwnElseStore ==
    \A h \in 1..Len(m_locations) :
        ( /\ m_locations[h].type = "IFELSE"
          /\ Structure(m_ast)[h].else_first # 0
          /\ Solved(Structure(m_ast)[h].else_first) )
        => InputStore(m_locations[Structure(m_ast)[h].else_first])
               = m_locations[h].m_store_else_body

\* C8: an EndIfLocation is given the outputs that the last Location of its
\* own then-body and the last Location of its own else-body produced in
\* the same pass.
C8_OwnBranchOutputs ==
    \A n \in 1..Len(m_locations) :
        (m_locations[n].type = "ENDIF" /\ Solved(n))
        => /\ m_locations[n].m_store_after_body =
                  OutputStore(m_locations[Structure(m_ast)[n].then_tail])
           /\ Structure(m_ast)[n].else_tail # 0 =>
                  m_locations[n].m_store_after_else =
                      OutputStore(m_locations[Structure(m_ast)[n].else_tail])

\* C9: for an if without else, the EndIfLocation's m_store_after_else is
\* the m_store_else_body its head computed in the same pass and its
\* m_store_after is the join, variable by variable, of m_store_after_body
\* and m_store_after_else; with 0 <= x <= 10 before `if (x == 5) { x = 100 }`
\* the store after the EndIfLocation has x = [0,100] and the postcondition
\* x <= 100 is reported satisfied.
C9_IfWithoutElse ==
    /\ \A n \in 1..Len(m_locations) :
          ( /\ m_locations[n].type = "ENDIF"
            /\ Structure(m_ast)[n].else_first = 0
            /\ Solved(n) )
          => /\ m_locations[n].m_store_after_else =
                    m_locations[Structure(m_ast)[n].head].m_store_else_body
             /\ SameStore(m_locations[n].m_store_after,
                          PointwiseJoin(m_locations[n].m_store_after_body,
                                        m_locations[n].m_store_after_else))
    /\ (input = <<3, "EQ", 5, 0, 10>> /\ pc = "done")
          => /\ m_locations[3].m_store_after.iv["x"] = Interval(0, 100)
             /\ output = <<[location |-> 4, verdict |-> "satisfied"]>>

\* C10: an EndWhileLocation is given the m_store_exit that the
\* WhileLocation of its own loop computed in the same pass, and its
\* m_store_after equals it.
C10_OwnExitStore ==
    \A n \in 1..Len(m_locations) :
        (m_locations[n].type = "ENDWHILE" /\ Solved(n))
        => /\ m_locations[n].m_store_from_while =
                  m_locations[Structure(m_ast)[n].head].m_store_exit
           /\ m_locations[n].m_store_after = m_locations[n].m_store_from_while

\* the interval is not empty: neither marked empty nor with crossed bounds
NonEmpty(interval) == ~interval.m_is_empty /\ interval.m_lb <= interval.m_ub
\* the interval is not marked empty and the value c lies within its bounds
Holds(interval, c) == ~interval.m_is_empty /\ interval.m_lb <= c /\ c <= interval.m_ub
\* the value c of x is kept by the branch the condition x op r sends it to
Covered(c, op, r, taken, other) ==
    IF concrete_compare(op, c, r) THEN Holds(taken, c) ELSE Holds(other, c)

\* C11: for every IfElseLocation and WhileLocation, every condition operator,
\* every non-empty interval of the tested variable and every constant r,
\* each value of the predecessor interval lies in the interval of the
\* condition-restricted store when it satisfies the condition and in the
\* interval of the complement-restricted store when it does not.
C11_BranchesCover ==
    (d_call[1] = "refine" /\ NonEmpty(d_left))
    => /\ d_ret.IFELSE.status = "ok"
       /\ d_ret.WHILE.status = "ok"
       /\ \A c \in d_left.m_lb .. d_left.m_ub :
             /\ Covered(c, d_call[2], d_right.m_lb,
                        d_ret.IFELSE.loc.m_store_if_body.iv["x"],
                        d_ret.IFELSE.loc.m_store_else_body.iv["x"])
             /\ Covered(c, d_call[2], d_right.m_lb,
                        d_ret.WHILE.loc.m_store_body.iv["x"],
                        d_ret.WHILE.loc.m_store_exit.iv["x"])

\* the interval [lb,ub] without the value r
neq_expected(lb, ub, r) ==
    CASE r = lb /\ lb < ub -> Interval(lb + 1, ub)
      [] r = ub /\ ub > lb -> Interval(lb, ub - 1)
      [] r = lb /\ lb = ub -> [m_is_empty |-> TRUE, m_lb |-> lb, m_ub |-> ub]
      [] OTHER -> Interval(lb, ub)

\* C12: for a non-empty interval [lb,ub] of the tested variable and a
\* singleton right-hand side [r,r], refinement by != removes only r: the
\* result is [lb+1,ub] when r = lb < ub, [lb,ub-1] when r = ub > lb, empty
\* when lb = ub = r, and the interval unchanged in every other case.
C12_NeqRemovesOnlyR ==
    (d_call[1] = "refine" /\ d_call[2] = "NEQ" /\ NonEmpty(d_left))
    => /\ d_ret.IFELSE.status = "ok"
       /\ d_ret.WHILE.status = "ok"
       /\ IntervalEq(d_ret.IFELSE.loc.m_store_if_body.iv["x"],
                     neq_expected(d_left.m_lb, d_left.m_ub, d_right.m_lb))
       /\ IntervalEq(d_ret.WHILE.loc.m_store_body.iv["x"],
                     neq_expected(d_left.m_lb, d_left.m_ub, d_right.m_lb))

\* the half-line [half_lo, half_hi] of the values v with v op r
half_lo(op, r) ==
    CASE op \in {"LEQ", "LE"} -> min_T
      [] op = "GE" -> r + 1
      [] OTHER -> r
half_hi(op, r) ==
    CASE op \in {"GEQ", "GE"} -> max_T
      [] op = "LE" -> r - 1
      [] OTHER -> r
\* interval is [lb,ub] met with [lo,hi], empty when the two do not overlap
IsMeet(interval, lb, ub, lo, hi) ==
    IF Max2(lb, lo) > Min2(ub, hi)
    THEN interval.m_is_empty
    ELSE /\ ~interval.m_is_empty
         /\ interval.m_lb = Max2(lb, lo)
         /\ interval.m_ub = Min2(ub, hi)

\* C13: for a non-empty interval of the tested variable and every singleton
\* right-hand side [r,r], r = min_T and r = max_T included, refinement by
\* <=, <, >=, >, == yields the interval met with [min_T,r], [min_T,r-1],
\* [r,max_T], [r+1,max_T], [r,r], and the result is empty whenever no value
\* of the interval satisfies the condition.
C13_HalfLineMeet ==
    (d_call[1] = "refine" /\ d_call[2] # "NEQ" /\ NonEmpty(d_left))
    => /\ d_ret.IFELSE.status = "ok"
       /\ d_ret.WHILE.status = "ok"
       /\ IsMeet(d_ret.IFELSE.loc.m_store_if_body.iv["x"], d_left.m_lb, d_left.m_ub,
                 half_lo(d_call[2], d_right.m_lb), half_hi(d_call[2], d_right.m_lb))
       /\ IsMeet(d_ret.WHILE.loc.m_store_body.iv["x"], d_left.m_lb, d_left.m_ub,
                 half_lo(d_call[2], d_right.m_lb), half_hi(d_call[2], d_right.m_lb))

\* the bounds of the result of a op b over the integers
math_lb(op, a, b) ==
    CASE op = "ADD" -> a.m_lb + b.m_lb
      [] op = "SUB" -> a.m_lb - b.m_ub
      [] op = "MUL" -> Min4(a.m_lb * b.m_lb, a.m_lb * b.m_ub, a.m_ub * b.m_lb, a.m_ub * b.m_ub)
math_ub(op, a, b) ==
    CASE op = "ADD" -> a.m_ub + b.m_ub
      [] op = "SUB" -> a.m_ub - b.m_lb
      [] op = "MUL" -> Max4(a.m_lb * b.m_lb, a.m_lb * b.m_ub, a.m_ub * b.m_lb, a.m_ub * b.m_ub)
InT(v) == min_T <= v /\ v <= max_T

\* C14: for all non-empty operands, when a bound of the mathematical result
\* of +, - or * falls outside [min_T, max_T], the operator returns the top
\* interval [min_T, max_T]; it never returns wrapped bounds.
C14_OverflowIsTop ==
    (/\ d_call[1] = "evaluate_expression"
     /\ d_call[2] \in {"ADD", "SUB", "MUL"}
     /\ NonEmpty(d_left)
     /\ NonEmpty(d_right)
     /\ ~(InT(math_lb(d_call[2], d_left, d_right)) /\ InT(math_ub(d_call[2], d_left, d_right))))
    => /\ d_ret.status = "ok"
       /\ d_ret.interval = Interval(min_T, max_T)

\* the interval [min, max] over the four quotients of the bounds of a and d
quotients(a, d) ==
    Interval(Min4(DivT(a.m_lb, d.m_lb), DivT(a.m_lb, d.m_ub),
                  DivT(a.m_ub, d.m_lb), DivT(a.m_ub, d.m_ub)),
             Max4(DivT(a.m_lb, d.m_lb), DivT(a.m_lb, d.m_ub),
                  DivT(a.m_ub, d.m_lb), DivT(a.m_ub, d.m_ub)))

\* C15: for all non-empty operands a and d, evaluating a / d returns the top
\* interval and emits a division-by-zero warning exactly when
\* d.lb <= 0 <= d.ub; in every other case no such warning is emitted and
\* the result is [min, max] over the four quotients of the operands' bounds.
C15_Division ==
    (/\ d_call[1] = "evaluate_expression"
     /\ d_call[2] = "DIV"
     /\ NonEmpty(d_left)
     /\ NonEmpty(d_right))
    => /\ d_ret.status = "ok"
       /\ d_ret.warning = (d_right.m_lb <= 0 /\ 0 <= d_right.m_ub)
       /\ d_ret.interval = IF d_right.m_lb <= 0 /\ 0 <= d_right.m_ub
                           THEN Interval(min_T, max_T)
                           ELSE quotients(d_left, d_right)

\* C16: for each of +, -, *, /, if either operand is an empty interval (the
\* value read from a variable whose interval in the store is empty), the
\* result of the operation is an empty interval.
C16_EmptyOperand ==
    (/\ d_call[1] = "evaluate_expression"
     /\ (d_left.m_is_empty \/ d_right.m_is_empty))
    => /\ d_ret.status = "ok"
       /\ ~NonEmpty(d_ret.interval)

\* every interval of the store that is not marked empty has lb <= ub
WellFormed(store) ==
    store.null \/ \A v \in store.keys : store.iv[v].m_is_empty \/ store.iv[v].m_lb <= store.iv[v].m_ub

\* C17: an Interval constructed from bounds with lb > ub is empty, and in
\* every reachable state of the analysis every interval held in any store
\* of any Location that is not marked empty satisfies lb <= ub.
C17_BoundsOrdered ==
    \A i \in 1..Len(m_locations) :
        \A f \in StoreFields(m_locations[i].type) : WellFormed(m_locations[i][f])

\* interval a is included in interval b (an empty interval in every one)
IntervalBelow(a, b) ==
    ~NonEmpty(a) \/ (NonEmpty(b) /\ b.m_lb <= a.m_lb /\ a.m_ub <= b.m_ub)
\* pointwise inclusion of two stores over the same variables
StoreBelow(s, t) ==
    /\ ~s.null
    /\ ~t.null
    /\ s.keys = t.keys
    /\ \A v \in s.keys : IntervalBelow(s.iv[v], t.iv[v])
\* the stores a Location produces
ProducedStores(type) ==
    StoreFields(type) \ {"m_store_before", "m_store_before_condition"}

\* C18: for every Location kind and all input stores s, s' over the same
\* variables with s below s', the stores produced by the transfer function
\* satisfy T(s) below T(s'), including when the arithmetic of an
\* assignment reaches the bounds of the integer type.
C18_Monotone ==
    (d_call[1] = "m_operation" /\ NonEmpty(d_left) /\ NonEmpty(d_right))
    => /\ d_ret.below.status = "ok"
       /\ d_ret.above.status = "ok"
       /\ \A f \in ProducedStores(d_call[2]) :
             StoreBelow(d_ret.below.loc[f], d_ret.above.loc[f])

\* C19: for every Store s, including stores in which some variable's
\* interval is empty, s.joinAll(s) leaves s equal (by equals) to its value
\* before the call.
C19_JoinAllSelf ==
    d_call[1] = "joinAll" => equals(d_ret, OperandStore(d_left, d_right))

\* C20: for every Interval I, empty or not, I.meet(top) equals I,
\* I.join(bottom) equals I and I.meet(I) equals I, where top is
\* [min_T, max_T], bottom is an empty interval and equality is operator==.
C20_RoundTrip ==
    d_call[1] = "meet_join"
    => /\ IntervalEq(d_ret.meet_top, d_left)
       /\ IntervalEq(d_ret.join_bottom, d_left)
       /\ IntervalEq(d_ret.meet_self, d_left)

\* the verdicts of the PostConditionLocations among the first k Locations,
\* in program order, each on the store the Location holds
RECURSIVE verdicts_upto(_, _, _)
verdicts_upto(locs, q, k) ==
    IF k = 0 THEN <<>>
    ELSE IF locs[k].type = "POSTCONDITION"
    THEN Append(verdicts_upto(locs, q, k - 1),
                [location |-> k,
                 verdict |-> PostConditionOperation(locs[k], q, TRUE).verdict])
    ELSE verdicts_upto(locs, q, k - 1)

\* C21: no postcondition verdict is produced during a fixpoint pass; after
\* the first pass at which every Location is stable, each
\* PostConditionLocation is evaluated exactly once, in program order,
\* against the store it holds from that final pass.
C21_VerdictsAfterFixpoint ==
    /\ output # <<>>
       => /\ pc \in {"postconditions", "done"}
          /\ should_evaluate_postcondition
          /\ is_stable(m_locations, m_old_locations) = "stable"
    /\ pc \in {"postconditions", "done"}
       => output = verdicts_upto(m_locations, Queues, counter)
\* C21 witness: a run has ended with the verdicts of two postconditions,
\* after more than one pass
C21_Witness ==
    pc = "done" /\ Len(output) = 2 /\ it_count > 1

\* the concrete values of an interval: none when it is marked empty
Concretization(interval) ==
    IF interval.m_is_empty THEN {} ELSE interval.m_lb..interval.m_ub

\* C22: whenever the postcondition `L <= R` (likewise >=, <, >) is reported
\* satisfied, every pair (a, b) with a in the interval of L and b in the
\* interval of R satisfies the relation, also when the interval of R is not
\* a singleton.
C22_SatisfiedForAllPairs ==
    (/\ d_call[1] = "postcondition"
     /\ d_call[2] \in {"LEQ", "GEQ", "LE", "GE"}
     /\ d_ret.verdict = "satisfied")
    => \A a \in Concretization(d_left) : \A b \in Concretization(d_right) :
          concrete_compare(d_call[2], a, b)

\* C23: the postcondition `L == R` is reported satisfied only when the two
\* intervals have equal bounds and both are non-empty singletons.
C23_EqualOnlySingletons ==
    (/\ d_call[1] = "postcondition"
     /\ d_call[2] = "EQ"
     /\ d_ret.verdict = "satisfied")
    => /\ NonEmpty(d_left) /\ NonEmpty(d_right)
       /\ d_left.m_lb = d_left.m_ub
       /\ d_right.m_lb = d_right.m_ub
       /\ d_left.m_lb = d_right.m_lb

\* the positions of the PostConditionLocations of the program
PostConditionLocations == {i \in 1..Len(m_locations) : m_locations[i].type = "POSTCONDITION"}

\* C24: in the verification phase a postcondition reported as not satisfied
\* does not stop the run: the process goes on with the next Location, no
\* evaluation of the phase ends it, and when run() has completed every
\* PostConditionLocation of the program has its verdict in the output, in
\* the order of the program, whatever the earlier verdicts.
C24_ViolationDoesNotStop ==
    /\ pc # "fault_postconditions"
    /\ (\E k \in 1..Len(output) : output[k].verdict = "not satisfied")
          => pc \in {"postconditions", "done"}
    /\ pc = "done"
          => /\ Len(output) = Cardinality(PostConditionLocations)
             /\ \A k \in 1..Len(output) : output[k].location \in PostConditionLocations
             /\ \A k \in 1..Len(output) - 1 : output[k].location < output[k + 1].location
C24_Witness ==
    /\ pc = "done"
    /\ Len(output) = 2
    /\ output[1].verdict = "not satisfied"
    /\ output[2].verdict = "satisfied"

RECURSIVE MalformedCondition(_)
\* the block holds an if or a while whose condition has no variable on its
\* left side, or a variable on its right side
MalformedCondition(block) ==
    \/ /\ block.type = "CONDITION"
       /\ \/ block.children[1].children[1].type # "VARIABLE"
          \/ block.children[1].children[2].type = "VARIABLE"
    \/ \E i \in 1..Len(block.children) : MalformedCondition(block.children[i])

\* C25: a program with an if or while condition whose left side is not a
\* variable, or whose right side is a variable that does not hold a single
\* value, is rejected while the equation system is built: the process has
\* exited before the first pass and no Location is ever evaluated.
C25_RejectedAtBuild ==
    MalformedCondition(m_ast) => pc \in {"build", "exited"} /\ it_count = 0

\* the bound a precondition clause puts on variable v from below and from
\* above: min_T and max_T when it puts none
lower_of(clause, v) ==
    IF /\ clause.value = "<=" /\ clause.children[1].type = "INTEGER"
       /\ clause.children[2].type = "VARIABLE" /\ clause.children[2].value = v
    THEN clause.children[1].value
    ELSE IF /\ clause.value = ">=" /\ clause.children[1].type = "VARIABLE"
            /\ clause.children[2].type = "INTEGER" /\ clause.children[1].value = v
    THEN clause.children[2].value
    ELSE min_T
upper_of(clause, v) ==
    IF /\ clause.value = "<=" /\ clause.children[1].type = "VARIABLE"
       /\ clause.children[2].type = "INTEGER" /\ clause.children[1].value = v
    THEN clause.children[2].value
    ELSE IF /\ clause.value = ">=" /\ clause.children[1].type = "INTEGER"
            /\ clause.children[2].type = "VARIABLE" /\ clause.children[2].value = v
    THEN clause.children[1].value
    ELSE max_T
RECURSIVE precondition_clauses(_, _)
\* the clauses of the leading PRE_CON blocks, in the order of the program
precondition_clauses(blocks, i) ==
    IF i > Len(blocks) \/ blocks[i].type # "PRE_CON" THEN <<>>
    ELSE blocks[i].children \o precondition_clauses(blocks, i + 1)
RECURSIVE strongest_lower(_, _, _)
strongest_lower(clauses, v, k) ==
    IF k = 0 THEN min_T
    ELSE Max2(lower_of(clauses[k], v), strongest_lower(clauses, v, k - 1))
RECURSIVE strongest_upper(_, _, _)
strongest_upper(clauses, v, k) ==
    IF k = 0 THEN max_T
    ELSE Min2(upper_of(clauses[k], v), strongest_upper(clauses, v, k - 1))
PreconditionClauses == precondition_clauses(m_ast.children[2].children, 1)

\* C26: once the preconditions are processed, the interval of every declared
\* variable in the precondition store is top met with the half-line of every
\* clause on that variable, whatever the order of the clauses: the strongest
\* lower and upper bounds, and empty when they contradict each other.
C26_PreconditionsMeet ==
    pc \notin {"build", "exited", "domain"} =>
        \A v \in Declared(m_ast) :
            IsMeet(m_precondition_store.iv[v], min_T, max_T,
                   strongest_lower(PreconditionClauses, v, Len(PreconditionClauses)),
                   strongest_upper(PreconditionClauses, v, Len(PreconditionClauses)))

\* the variable tested by the IfElseLocation at head
TestedVariable(head) == ConditionOf(m_locations[head]).children[1].value
\* the condition of the if at head has left its variable empty for the
\* then-branch
EmptyThenBranch(head) ==
    /\ ~m_locations[head].m_store_if_body.null
    /\ m_locations[head].m_store_if_body.iv[TestedVariable(head)].m_is_empty

\* C27: when the condition of an if leaves the tested variable empty for the
\* then-branch, the variable holds no value in the store after every
\* assignment of the branch, and the store after the EndIf equals the output
\* of the else-branch (the store given to the EndIfLocation for it).  Stated
\* for the ifs whose EndIfLocation has run in the current pass.
C27_EmptyBranchUnreachable ==
    pc = "solve" =>
        \A e \in 1..counter :
            (/\ m_locations[e].type = "ENDIF"
             /\ m_locations[Structure(m_ast)[e].head].type = "IFELSE"
             /\ EmptyThenBranch(Structure(m_ast)[e].head))
            => /\ \A j \in (Structure(m_ast)[e].head + 1)..Structure(m_ast)[e].then_tail :
                     m_locations[j].type = "ASSIGNMENT"
                     => ~NonEmpty(m_locations[j].m_store_after.iv[
                                       TestedVariable(Structure(m_ast)[e].head)])
               /\ SameStore(m_locations[e].m_store_after, m_locations[e].m_store_after_else)

\* every store the Location holds, null pointers apart, has exactly the
\* declared variables as keys
DeclaredKeys(loc) ==
    \A f \in StoreFields(loc.type) : loc[f].null \/ loc[f].keys = Declared(m_ast)

\* C29: the programs of the model mention only declared variables.  The
\* precondition store built for them, and in every pass every store of a
\* Location that has been given its input and has run, has exactly the
\* declared variables as keys; so have all the stores the verification
\* phase reads.
C29_KeysAreDeclared ==
    /\ pc \notin {"build", "exited"} => m_precondition_store.keys = Declared(m_ast)
    /\ pc = "solve" => \A i \in 1..counter : DeclaredKeys(m_locations[i])
    /\ pc \in {"postconditions", "done"}
          => \A i \in 1..Len(m_locations) : DeclaredKeys(m_locations[i])
C29_Witness ==
    /\ pc = "solve"
    /\ it_count = 2
    /\ counter = Len(m_locations)
    /\ Declared(m_ast) = {"x", "y"}
    /\ \E i \in 1..counter : m_locations[i].type = "ENDIF"
    /\ \E i \in 1..counter : m_locations[i].type = "ASSIGNMENT"

\* C30: the process started by main exits with code 0 whenever the input
\* file opens and the analysis completes, whatever the verdicts: a verdict
\* "not satisfied" never ends the process, and exit code 1 is produced only
\* when the file cannot be opened.
C30_ExitCode ==
    /\ exit_status = <<1>> => ~f_is_open
    /\ (\E k \in 1..Len(output) : output[k] = "not satisfied") => pc # "exited"
    /\ (pc = "returned" /\ f_is_open) => exit_status = <<0>>


\* the objects the store pointers of a Location refer to
Pointers(loc) == {loc[f].at : f \in {g \in StoreFields(loc.type) : ~loc[g].null}}
\* the objects held by the Locations other than i, and by the snapshot
HeldByOthers(i) ==
    UNION ({Pointers(m_locations[j]) : j \in (1..Len(m_locations)) \ {i}}
           \cup {Pointers(m_old_locations[j]) : j \in 1..Len(m_old_locations)})

\* C28: executing the transfer function of one Location, of any of the six
\* kinds, leaves every store object held by another Location or by the
\* snapshot of the previous pass with the contents it had, and writes into
\* none of them: what it writes is a store of its own.
C28_FrameEffect ==
    [][(pc = "solve" /\ counter' = counter + 1)
          => /\ \A a \in HeldByOthers(counter + 1) :
                   /\ heap'[a] = heap[a]
                   /\ a \notin written'
             /\ written' \subseteq Pointers(m_locations'[counter + 1])]_vars
\* second pass, after the IfElseLocation at the head of a loop body ran
\* again: its input is the object the WhileLocation holds as m_store_body
\* (it came through m_while_body_stores_queue), the two stores it wrote are
\* new objects that it holds and that the queues hold too, and no other
\* Location and no Location of the snapshot holds them
C28_Witness ==
    /\ pc = "solve"
    /\ it_count = 2
    /\ counter >= 2
    /\ m_locations[counter].type = "IFELSE"
    /\ m_locations[counter - 1].type = "WHILE"
    /\ ~m_locations[counter].m_store_before_condition.null
    /\ m_locations[counter].m_store_before_condition = m_locations[counter - 1].m_store_body
    /\ m_locations[counter].m_store_before_condition.at \in HeldByOthers(counter)
    /\ written = {m_locations[counter].m_store_if_body.at,
                  m_locations[counter].m_store_else_body.at}
    /\ Cardinality(written) = 2
    /\ written \cap HeldByOthers(counter) = {}
    /\ Len(m_if_body_stores_queue) > 0
    /\ m_if_body_stores_queue[Len(m_if_body_stores_queue)] =
           m_locations[counter].m_store_if_body
    /\ Len(m_else_body_stores_queue) > 0
    /\ m_else_body_stores_queue[Len(m_else_body_stores_queue)] =
           m_locations[counter].m_store_else_body
    /\ Len(m_old_locations) = Len(m_locations)
    /\ Pointers(m_old_locations[counter]) # {}

\* the interval of eval(x op y) and of eval(y) when x holds l and y holds r:
\* the operators of Interval on copies of the two operands
ExpressionValue(op, l, r) ==
    CASE op = "VAR" -> IntervalCopy(r)
      [] op = "ADD" -> IntervalAdd(IntervalCopy(l), IntervalCopy(r))
      [] op = "SUB" -> IntervalSub(IntervalCopy(l), IntervalCopy(r))
      [] op = "MUL" -> IntervalMul(IntervalCopy(l), IntervalCopy(r))
      [] op = "DIV" -> IntervalDiv(IntervalCopy(l), IntervalCopy(r))

\* C31: after the transfer function of the assignment x := e has run on the
\* input store, the output store holds eval(e, input) for x and the input's
\* interval for the other variable y, and the input store is as it was.
C31_AssignmentFrame ==
    (d_call[1] = "assignment" /\ d_ret.status = "ok") =>
        /\ d_ret.loc.m_store_after.keys = {"x", "y"}
        /\ d_ret.loc.m_store_after.iv["x"] = ExpressionValue(d_call[2], d_left, d_right)
        /\ d_ret.loc.m_store_after.iv["y"] = d_right
        /\ d_ret.loc.m_store_before = OperandStore(d_left, d_right)
\* x := x + y has run, y holding an interval flagged empty and x a new value
C31_Witness ==
    /\ d_call = <<"assignment", "ADD">>
    /\ d_ret.status = "ok"
    /\ d_right.m_is_empty
    /\ d_ret.loc.m_store_after.iv["x"] # d_left
    /\ d_ret.loc.m_store_after.iv["y"] = d_right


\* the condition `var op rhs` of the WhileLocation loc
WhileCondition(loc) == loc.m_code_block.children[1].children[1]
\* the store J of the WhileLocation at i for the pass being run: the store
\* before the condition, joined after the first pass with the output that
\* the last Location of the loop's body produced on the previous pass
JoinedStore(i, before) ==
    IF it_count = 1 THEN before
    ELSE PointwiseJoin(before, OutputStore(m_locations[Structure(m_ast)[i].body_tail]))
\* store restricted by the condition `var op rhs`, rhs evaluated in before
Restricted(store, before, condition, op) ==
    apply_command_to_store(store, condition.children[1].value,
                           evaluate_expression(condition.children[2], before).interval, op)

\* C32: in every pass a WhileLocation that runs computes m_store_body and
\* m_store_exit from one store J, the store before the condition joined
\* with the store fed back from its body (J is the store before the
\* condition on the first pass): m_store_body is J restricted by the
\* condition and m_store_exit is J restricted by the complementary one.
C32_BodyAndExitFromJoin ==
    [][ \A i \in 1..Len(m_locations) :
          ( /\ pc = "solve" /\ counter = i - 1 /\ m_locations[i].type = "WHILE"
            /\ pc' = "solve" /\ counter' = i )
          => /\ m_locations'[i].m_store_body =
                   Restricted(JoinedStore(i, m_locations'[i].m_store_before_condition),
                              m_locations'[i].m_store_before_condition,
                              WhileCondition(m_locations[i]),
                              WhileCondition(m_locations[i]).value)
             /\ m_locations'[i].m_store_exit =
                   Restricted(JoinedStore(i, m_locations'[i].m_store_before_condition),
                              m_locations'[i].m_store_before_condition,
                              WhileCondition(m_locations[i]),
                              extract_complementary_op(WhileCondition(m_locations[i]).value)) ]_vars


\* the stores of a Location that is_stable compares with the snapshot
ComparedStores(type) ==
    CASE type = "ASSIGNMENT" -> {"m_store_after"}
      [] type = "POSTCONDITION" -> {}
      [] type = "IFELSE" -> {"m_store_if_body", "m_store_else_body"}
      [] type = "ENDIF" -> {"m_store_after_body", "m_store_after_else"}
      [] type = "WHILE" -> {"m_store_body", "m_store_exit"}
      [] type = "ENDWHILE" -> {"m_store_after"}
\* every compared store of loc is a store equal to the snapshot's
StableAgainst(loc, old) ==
    \A f \in ComparedStores(loc.type) :
        /\ ~loc[f].null
        /\ ~old[f].null
        /\ equals(loc[f], old[f])
EveryLocationStable ==
    \A i \in 1..Len(m_locations) : StableAgainst(m_locations[i], m_old_locations[i])

\* C33: the snapshot holds the stores the Locations had just before the
\* pass, and after the pass run() goes on to the verification phase if and
\* only if every Location's compared stores equal the snapshot's; while a
\* compared store differs, it starts another pass.
C33_LeavesLoopIffStable ==
    [][ /\ (pc = "iterate" /\ pc' = "solve_system")
            => /\ Len(m_old_locations') = Len(m_locations)
               /\ \A i \in 1..Len(m_locations) : SameStores(m_locations[i], m_old_locations'[i])
        /\ (pc = "solve" /\ counter = Len(m_locations) /\ pc' # "solve")
            => /\ (pc' = "postconditions") <=> EveryLocationStable
               /\ (\E i \in 1..Len(m_locations) :
                      \E f \in ComparedStores(m_locations[i].type) :
                          /\ ~m_locations[i][f].null
                          /\ ~m_old_locations[i][f].null
                          /\ ~equals(m_locations[i][f], m_old_locations[i][f]))
                   => pc' # "postconditions" ]_vars
\* the loop was left after a third pass of a program with a while loop
C33_Witness ==
    /\ pc = "postconditions"
    /\ counter = 0
    /\ it_count >= 3
    /\ \E i \in 1..Len(m_locations) : m_locations[i].type = "WHILE"
    /\ EveryLocationStable


\* the number of while loops of the program
RECURSIVE WhileLoops(_)
WhileLoops(i) ==
    IF i = 0 THEN 0
    ELSE WhileLoops(i - 1) + (IF m_locations[i].type = "WHILE" THEN 1 ELSE 0)

\* C34: when a solver pass has run its last Location, the if-body,
\* else-body, final-if, final-else, while-body and while-exit queues are
\* empty and the feedback queue holds one store per while loop, so that no
\* queue grows from one pass to the next.
C34_QueuesAtEndOfPass ==
    (pc = "solve" /\ counter = Len(m_locations)) =>
        /\ m_if_body_stores_queue = <<>>
        /\ m_else_body_stores_queue = <<>>
        /\ m_final_if_body_stores_queue = <<>>
        /\ m_final_else_body_stores_queue = <<>>
        /\ m_while_body_stores_queue = <<>>
        /\ m_while_exit_stores_queue = <<>>
        /\ Len(m_final_while_body_stores_queue) = WhileLoops(Len(m_locations))


\* the program has no while loop
WhileFree == \A i \in 1..Len(m_locations) : m_locations[i].type \notin {"WHILE", "ENDWHILE"}

\* C35: for a program without while loops the second solver pass ends with
\* every Location's stores equal to those of the first pass, and run()
\* never begins a third pass.
C35_TwoPasses ==
    (pc \in {"iterate", "solve_system", "solve", "postconditions", "done"} /\ WhileFree) =>
        /\ it_count <= 2
        /\ (pc = "solve" /\ counter = Len(m_locations) /\ it_count = 2) => EveryLocationStable
        /\ (pc \in {"postconditions", "done"}) => it_count = 2


\* C36: for all non-empty operands, those with a bound equal to 0 included,
\* a * b completes without a fault and returns an interval that contains
\* the product of every value of a with every value of b.
C36_MulCompletes ==
    (/\ d_call = <<"evaluate_expression", "MUL">>
     /\ NonEmpty(d_left)
     /\ NonEmpty(d_right))
    => /\ d_ret.status = "ok"
       /\ \A a \in d_left.m_lb..d_left.m_ub : \A b \in {d_right.m_lb, d_right.m_ub} :
              Holds(d_ret.interval, a * b)
       /\ \A a \in {d_left.m_lb, d_left.m_ub} : \A b \in d_right.m_lb..d_right.m_ub :
              Holds(d_ret.interval, a * b)


\* C37: for non-empty operands, operator+ and operator- write the overflow
\* warning if and only if a bound of the result over the integers lies
\* outside [min_T, max_T].
C37_WarningIffOverflow ==
    (/\ d_call[1] = "operator"
     /\ NonEmpty(d_left)
     /\ NonEmpty(d_right))
    => (d_ret.warning <=> ~(/\ InT(math_lb(d_call[2], d_left, d_right))
                            /\ InT(math_ub(d_call[2], d_left, d_right))))

StructureOK ==
    pc \notin {"build", "exited"} =>
        /\ Len(Structure(m_ast)) = Len(m_locations)
        /\ \A i \in 1..Len(m_locations) : Structure(m_ast)[i].kind = m_locations[i].type

====
